---------------------------- MODULE Spec2Model ----------------------------
(***************************************************************************)
(* Real-time exam-session coordinator (SocketService), the warning engine *)
(* (VideoMonitoringService), the persisted exam aggregate and the REST     *)
(* handlers that write to it.                                              *)
(*                                                                         *)
(* Every handler is an async function.  It runs synchronously up to an     *)
(* await on the persistence layer (Exam.findById, exam.save), is suspended *)
(* while the operation executes, and resumes in a later turn of the event  *)
(* loop.  A suspended handler is an entry of `tasks`; the operation it is  *)
(* waiting for is executed by DbFind / DbSave, and its continuation is a   *)
(* separate action.                                                        *)
(***************************************************************************)
EXTENDS Integers, Sequences, FiniteSets, TLC

(***************************************************************************)
(* Bounds of the model                                                     *)
(***************************************************************************)
MaxTasks == 2
MaxWarn == 4
MaxDisc == 3
MaxEvents == 4
MaxNowCooldown == 2
MaxNowTab == 11
MaxNowReconnect == 2
MaxCooldownCalls == 2
MaxFrames == 3
MaxIntervals == 2
MaxNowMonitor == 2
MaxNowWindow == 21
MaxNowThresholds == 4

(***************************************************************************)
(* Program constants                                                       *)
(***************************************************************************)
MAX_RECONNECTION_ATTEMPTS == 3
RECONNECTION_TIMEOUT == 30000
VIDEO_RECONNECTION_TIMEOUT == 30000
WARNING_COOLDOWN == 60000
MAX_DISCONNECTIONS == 3
DefaultMaxWarnings == 3
AntiCheatWindow == 300000
TabSwitchThreshold == 3
CopyPasteThreshold == 2
RightClickThreshold == 5
DevToolsThreshold == 1
ANALYSIS_WINDOW == 600000
POLL_INTERVAL == 30000
SMALL_FRAME == 1000
LARGE_FRAME == 50000
\* the confidence of checkForSuspiciousActivity in tenths
MULTIPLE_FACES_WEIGHT == 4
NO_FACE_WEIGHT == 3
UNUSUAL_MOVEMENT_WEIGHT == 3
CONFIDENCE_THRESHOLD == 6

\* Date.now() advances in steps of the shortest period the program compares against
TickMs == RECONNECTION_TIMEOUT

(***************************************************************************)
(* Identities, connections, exams                                          *)
(***************************************************************************)
Users == {"a", "c1", "c2"}
NoUser == "nouser"
Sockets == {"s1", "s2", "s3", "s4"}
NoSock == "nosock"
\* socket.data.user._id, bound by the handshake middleware from the credential
SockUser(s) == IF s = "s1" THEN "a" ELSE IF s = "s4" THEN "c2" ELSE "c1"
DbExams == {"E1", "E2"}
ExamIds == DbExams \cup {"EX"}
NoExam == "noexam"
NoTime == -1

UserType(u) == IF u = "a" THEN "admin" ELSE "candidate"
ExamAdmin(e) == "a"
ExamCandidates(e) == IF e = "E1" THEN {"c1"} ELSE {"c1", "c2"}
\* exam.settings?.maxWarnings ?? 3 and exam.settings?.autoDisqualifyOnMaxWarnings ?? true:
\* the exams of the model leave both settings unset
SettingsMaxWarnings(e) == DefaultMaxWarnings
SettingsAutoDisqualify(e) == TRUE

TransportClose == "transport close"
ClientDisconnect == "client namespace disconnect"
Reasons == {TransportClose, ClientDisconnect}

EventTypes == {"tab_switch", "copy_paste", "right_click", "dev_tools", "fullscreen_exit"}

VARIABLES
  now,                  \* Date.now()
  connected,            \* io.sockets.sockets: the live connections
  examRooms,            \* SocketService.examRooms
  videoStates,          \* SocketService.videoStates
  reconnectionAttempts, \* SocketService.reconnectionAttempts
  timers,               \* pending setTimeout callbacks of handleDisconnect
  warningCooldowns,     \* VideoMonitoringService.warningCooldowns
  exams,                \* the persisted exam documents
  tasks,                \* suspended handlers
  out,                  \* notifications emitted by the last step
  transient,            \* observation: transient disconnects of an identity from a
                        \* session since its last accepted reconnect, and that session
  permanentCount,       \* observation: permanent-disconnection notifications per identity
  analysisResults,      \* VideoMonitoringService.analysisResults
  analysisIntervals,    \* SocketService.analysisIntervals
  intervals             \* the live setInterval timers of handleStartAutomatedMonitoring

memVars == <<examRooms, videoStates, reconnectionAttempts, timers, warningCooldowns>>
obsVars == <<transient, permanentCount>>
monVars == <<analysisResults, analysisIntervals, intervals>>
vars == <<now, connected, examRooms, videoStates, reconnectionAttempts,
          timers, warningCooldowns, exams, tasks, out, transient, permanentCount,
          analysisResults, analysisIntervals, intervals>>

TaskIds == 1..MaxTasks

None == << >>
Some(x) == <<x>>

NewCandidate(enabled) ==
  [status |-> "pending", warnings |-> 0, vmEnabled |-> enabled, vmWarningCount |-> 0,
   vmLastWarningTime |-> NoTime, disconnections |-> << >>, antiCheatingEvents |-> << >>]

NewVideoState == [isStreaming |-> FALSE, warningCount |-> 0, lastWarningTime |-> NoTime]

IdleTask ==
  [kind |-> "idle", io |-> "none", at |-> "-", sock |-> NoSock, peer |-> NoSock,
   user |-> NoUser,
   exam |-> NoExam, target |-> NoUser, reason |-> "-", found |-> FALSE,
   cand |-> None, dirty |-> {}, closed |-> {}, pushed |-> 0, pushedEvents |-> 0,
   vsLive |-> FALSE, vsSnap |-> None, met |-> {}, step |-> 0]

Init ==
  /\ now = 0
  /\ connected = {}
  /\ examRooms = << >>
  /\ videoStates = [u \in {} |-> NewVideoState]
  /\ reconnectionAttempts = [u \in {} |-> [attempts |-> 0, lastAttempt |-> 0, examId |-> NoExam]]
  /\ timers = {}
  /\ warningCooldowns = [u \in {} |-> 0]
  /\ exams = [e \in DbExams |-> [u \in ExamCandidates(e) |->
                 NewCandidate(~(e = "E2" /\ u = "c2"))]]
  /\ tasks = [t \in TaskIds |-> IdleTask]
  /\ out = {}
  /\ transient = [u \in Users |-> [count |-> 0, exam |-> NoExam]]
  /\ permanentCount = [u \in Users |-> 0]
  /\ analysisResults = [u \in {} |-> << >>]
  /\ analysisIntervals = [u \in {} |-> 0]
  /\ intervals = {}


(***************************************************************************)
(* Helpers                                                                 *)
(***************************************************************************)
Emit(ev, to, user) == [ev |-> ev, to |-> to, user |-> user, msg |-> ""]
EmitError(to, user, msg) == [ev |-> "error", to |-> to, user |-> user, msg |-> msg]

\* a handler is started in the lowest free slot
FreeTask(t) == tasks[t].kind = "idle" /\ \A t2 \in TaskIds : t2 < t => tasks[t2].kind # "idle"

Quiescent == \A t \in TaskIds : tasks[t].kind = "idle"

\* Map.set / Map.delete on a map modelled as a function with a varying domain
MapSet(m, k, v) == [x \in (DOMAIN m) \cup {k} |-> IF x = k THEN v ELSE m[x]]
MapDelete(m, k) == [x \in (DOMAIN m) \ {k} |-> m[x]]

\* examRooms is a Map<string, Set<string>>: its entries in insertion order
RoomIds(rooms) == {rooms[i].id : i \in DOMAIN rooms}
RoomGet(rooms, e) ==
  IF e \in RoomIds(rooms) THEN (CHOOSE i \in DOMAIN rooms : rooms[i].id = e) ELSE 0
RoomSockets(rooms, e) == IF e \in RoomIds(rooms) THEN rooms[RoomGet(rooms, e)].socks ELSE {}

\* if (!this.examRooms.has(examId)) this.examRooms.set(examId, new Set());
\* this.examRooms.get(examId)?.add(socket.id)
RoomAdd(rooms, e, s) ==
  IF e \in RoomIds(rooms)
  THEN [rooms EXCEPT ![RoomGet(rooms, e)].socks = @ \cup {s}]
  ELSE Append(rooms, [id |-> e, socks |-> {s}])

\* this.examRooms.get(examId)?.delete(socket.id)
RoomDelete(rooms, e, s) ==
  IF e \in RoomIds(rooms)
  THEN [rooms EXCEPT ![RoomGet(rooms, e)].socks = @ \ {s}]
  ELSE rooms

\* Array.from(this.examRooms.entries()).find(([_, sockets]) => sockets.has(socket.id))?.[0]
FindRoomOf(rooms, s) ==
  LET hits == {i \in DOMAIN rooms : s \in rooms[i].socks}
  IN IF hits = {} THEN NoExam
     ELSE rooms[CHOOSE i \in hits : \A j \in hits : i <= j].id

\* A handler that holds a reference to the monitoring-state object of user u keeps
\* the object when the map entry is replaced or deleted: its view becomes a snapshot.
Detach(ts, u) ==
  [t \in TaskIds |->
     IF ts[t].vsLive /\ ts[t].target = u /\ u \in DOMAIN videoStates
     THEN [ts[t] EXCEPT !.vsLive = FALSE, !.vsSnap = Some(videoStates[u])]
     ELSE ts[t]]

(***************************************************************************)
(* Connection handshake and time                                           *)
(***************************************************************************)
\* a connection id is fresh: the model reuses an id only when nothing refers to it
SockReferenced(s) ==
  \/ \E i \in DOMAIN examRooms : s \in examRooms[i].socks
  \/ \E t \in TaskIds : tasks[t].sock = s

Connect(s) ==
  /\ s \notin connected
  /\ ~SockReferenced(s)
  /\ connected' = connected \cup {s}
  /\ out' = {}
  /\ UNCHANGED <<now, memVars, exams, tasks, obsVars>>
  /\ UNCHANGED monVars

\* the credential a client presents in socket.handshake.auth.token: none, one that
\* jwt.verify rejects, a valid one naming a user that no longer exists, a valid one
Credentials == {"missing", "invalid", "unknown", "valid"}

\* the middleware without its test of the user lookup
CredentialAcceptedWithoutUser(c) == c \in {"unknown", "valid"}

\* lines 60-69: the token is present, verifies, and names a stored user
CredentialAccepted(c) == c = "valid"

HandshakeError(c) ==
  IF c = "missing" THEN "Unauthorized access"
  ELSE IF c = "unknown" THEN "User not found" ELSE "Invalid token"

\* io.use(...): next() lets the 'connection' listener register the event handlers of
\* the socket; next(err) refuses the connection
Handshake(s, c) ==
  /\ s \notin connected
  /\ ~SockReferenced(s)
  /\ IF CredentialAccepted(c)
     THEN /\ connected' = connected \cup {s}
          /\ out' = {}
     ELSE /\ connected' = connected
          /\ out' = {[ev |-> "connect_error", to |-> s, user |-> NoUser,
                      msg |-> HandshakeError(c)]}
  /\ UNCHANGED <<now, memVars, exams, tasks, obsVars>>
  /\ UNCHANGED monVars

Tick(maxNow) ==
  /\ now < maxNow * TickMs
  /\ now' = now + TickMs
  /\ out' = {}
  /\ UNCHANGED <<connected, memVars, exams, tasks, obsVars>>
  /\ UNCHANGED monVars

(***************************************************************************)
(* Persistence layer                                                       *)
(***************************************************************************)
\* Exam.findById(examId): the document as stored when the query executes.  A task
\* keeps the part of the document its handler uses: the sub-document of `target`.
DbFind(t) ==
  /\ tasks[t].io = "find"
  /\ LET e == tasks[t].exam
         u == tasks[t].target
         f == e \in DbExams
         c == IF f /\ u \in ExamCandidates(e) THEN Some(exams[e][u]) ELSE None
     IN tasks' = [tasks EXCEPT ![t].io = "found", ![t].found = f, ![t].cand = c,
                               ![t].dirty = {}, ![t].closed = {}, ![t].pushed = 0,
                               ![t].pushedEvents = 0]
  /\ out' = {}
  /\ UNCHANGED <<now, connected, memVars, exams, obsVars>>
  /\ UNCHANGED monVars

LastN(seq, n) == SubSeq(seq, Len(seq) - n + 1, Len(seq))

\* exam.save(): only the modified paths of the local document are written; a scalar
\* path is $set to the local value, appended array elements are $push-ed.
SavedCandidate(stored, local, dirty, closed, pushed, pushedEvents) ==
  LET withEnd == [i \in 1..Len(stored.disconnections) |->
                   IF i \in closed
                   THEN [stored.disconnections[i] EXCEPT
                           !.endTime = local.disconnections[i].endTime]
                   ELSE stored.disconnections[i]]
  IN [status |-> IF "status" \in dirty THEN local.status ELSE stored.status,
      warnings |-> IF "warnings" \in dirty THEN local.warnings ELSE stored.warnings,
      vmEnabled |-> stored.vmEnabled,
      vmWarningCount |-> IF "warnings" \in dirty THEN local.vmWarningCount
                         ELSE stored.vmWarningCount,
      vmLastWarningTime |-> IF "warnings" \in dirty THEN local.vmLastWarningTime
                            ELSE stored.vmLastWarningTime,
      disconnections |-> withEnd \o LastN(local.disconnections, pushed),
      antiCheatingEvents |-> stored.antiCheatingEvents \o
                             LastN(local.antiCheatingEvents, pushedEvents)]

DbSave(t) ==
  /\ tasks[t].io = "save"
  /\ LET e == tasks[t].exam
         u == tasks[t].target
     IN IF tasks[t].cand # None /\ e \in DbExams /\ u \in ExamCandidates(e)
        THEN exams' = [exams EXCEPT ![e][u] =
                         SavedCandidate(@, tasks[t].cand[1], tasks[t].dirty, tasks[t].closed,
                                        tasks[t].pushed, tasks[t].pushedEvents)]
        ELSE exams' = exams
  /\ tasks' = [tasks EXCEPT ![t].io = "saved", ![t].dirty = {}, ![t].closed = {},
                            ![t].pushed = 0, ![t].pushedEvents = 0]
  /\ out' = {}
  /\ UNCHANGED <<now, connected, memVars, obsVars>>
  /\ UNCHANGED monVars

\* the continuation runs although the save has not completed
SaveAwaitedOrPending(k) == k.io \in {"save", "saved"}

\* await exam.save(): the handler resumes when the save has completed
SaveAwaited(k) == k.io = "saved"

\* examSchema.methods.recordWarning on the local document
RecordWarning(k) ==
  IF k.cand = None THEN k
  ELSE [k EXCEPT !.cand = Some([k.cand[1] EXCEPT !.warnings = @ + 1,
                                                 !.vmWarningCount = @ + 1,
                                                 !.vmLastWarningTime = now]),
                 !.dirty = k.dirty \cup {"warnings"}]

\* examSchema.methods.recordDisconnection on the local document
RecordDisconnection(k) ==
  IF k.cand = None THEN k
  ELSE [k EXCEPT !.cand = Some([k.cand[1] EXCEPT !.disconnections =
                                  Append(@, [startTime |-> now, endTime |-> NoTime])]),
                 !.pushed = k.pushed + 1]

\* the end time written to the oldest entry instead of the most recent one
RecordReconnectionOldest(k) ==
  IF k.cand = None \/ Len(k.cand[1].disconnections) = 0 THEN k
  ELSE [k EXCEPT !.cand = Some([k.cand[1] EXCEPT !.disconnections[1].endTime = now]),
                 !.closed = k.closed \cup {1}]

\* examSchema.methods.recordReconnection on the local document
RecordReconnection(k) ==
  IF k.cand = None \/ Len(k.cand[1].disconnections) = 0 THEN k
  ELSE LET n == Len(k.cand[1].disconnections)
       IN [k EXCEPT !.cand = Some([k.cand[1] EXCEPT !.disconnections[n].endTime = now]),
                    !.closed = k.closed \cup {n}]

\* candidate.status = value on the local document; an unchanged value is not a modified path
SetStatus(k, value) ==
  [k EXCEPT !.cand = Some([k.cand[1] EXCEPT !.status = value]),
            !.dirty = IF k.cand[1].status = value THEN k.dirty ELSE k.dirty \cup {"status"}]

(***************************************************************************)
(* joinExam / join_room                                                    *)
(***************************************************************************)
HandleJoinExamStart(t, s, e) ==
  /\ FreeTask(t)
  /\ s \in connected
  /\ tasks' = [tasks EXCEPT ![t] = [IdleTask EXCEPT !.kind = "joinExam", !.io = "find",
                 !.at = "join", !.sock = s, !.user = SockUser(s), !.exam = e,
                 !.target = SockUser(s)]]
  /\ out' = {}
  /\ UNCHANGED <<now, connected, memVars, exams, obsVars>>
  /\ UNCHANGED monVars

HandleJoinRoomStart(t, s, e) ==
  /\ FreeTask(t)
  /\ s \in connected
  /\ tasks' = [tasks EXCEPT ![t] = [IdleTask EXCEPT !.kind = "joinRoom", !.io = "find",
                 !.at = "join", !.sock = s, !.user = SockUser(s), !.exam = e,
                 !.target = SockUser(s)]]
  /\ out' = {}
  /\ UNCHANGED <<now, connected, memVars, exams, obsVars>>
  /\ UNCHANGED monVars

\* the join without its authorization test
JoinAuthorizedAnyone(k) == TRUE

\* lines 122-125: const isAdmin = ...; const isCandidate = ...;
\* if (!isAdmin && !isCandidate) { error }
JoinAuthorized(k) == (k.found /\ ExamAdmin(k.exam) = k.user) \/ k.cand # None

\* the continuation after Exam.findById; the two handlers differ in the events emitted
JoinBody(t, legacy) ==
  LET k == tasks[t]
      isAdmin == k.found /\ ExamAdmin(k.exam) = k.user
      isCandidate == k.cand # None
  IN /\ k.io = "found" /\ k.at = "join"
     /\ IF ~k.found
        THEN /\ out' = {EmitError(k.sock, k.user, "Exam not found")}
             /\ tasks' = [tasks EXCEPT ![t] = IdleTask]
             /\ UNCHANGED <<examRooms, videoStates>>
        ELSE IF ~JoinAuthorized(k)
        THEN /\ out' = {EmitError(k.sock, k.user, "You are not authorized for this action")}
             /\ tasks' = [tasks EXCEPT ![t] = IdleTask]
             /\ UNCHANGED <<examRooms, videoStates>>
        ELSE /\ examRooms' = RoomAdd(examRooms, k.exam, k.sock)
             /\ IF isCandidate
                THEN /\ videoStates' = MapSet(videoStates, k.user, NewVideoState)
                     /\ tasks' = [Detach(tasks, k.user) EXCEPT ![t] = IdleTask]
                ELSE /\ videoStates' = videoStates
                     /\ tasks' = [tasks EXCEPT ![t] = IdleTask]
             /\ out' = IF legacy
                       THEN {Emit("joinedExam", k.sock, k.user)} \cup
                            (IF isAdmin THEN {Emit("user_list", k.sock, k.user)} ELSE {})
                       ELSE {Emit("joinedExam", k.sock, k.user),
                             Emit("userJoined", k.exam, k.user)}
     /\ UNCHANGED <<now, connected, reconnectionAttempts, timers,
                    warningCooldowns, exams, obsVars, monVars>>

HandleJoinExam(t) == tasks[t].kind = "joinExam" /\ JoinBody(t, FALSE)

HandleJoinRoom(t) == tasks[t].kind = "joinRoom" /\ JoinBody(t, TRUE)

(***************************************************************************)
(* sendWarning                                                             *)
(***************************************************************************)
HandleSendWarningStart(t, s, e, u) ==
  /\ FreeTask(t)
  /\ s \in connected
  /\ tasks' = [tasks EXCEPT ![t] = [IdleTask EXCEPT !.kind = "sendWarning", !.io = "find",
                 !.at = "auth", !.sock = s, !.user = SockUser(s), !.exam = e, !.target = u]]
  /\ out' = {}
  /\ UNCHANGED <<now, connected, memVars, exams, obsVars>>
  /\ UNCHANGED monVars

\* the monitoring state a handler sees through the reference it holds
HeldVideoState(k) == IF k.vsLive THEN videoStates[k.target] ELSE k.vsSnap[1]

\* the guard of the warning branch: const videoState = this.videoStates.get(userId);
\* if (videoState) { ... }
WarningTargetAccepted(k) == k.target \in DOMAIN videoStates

\* the sender test reduced to its !exam half
SenderAcceptedIfExamExists(k) == k.found

\* lines 293 and 584: if (!exam || String(exam.admin) !== String(sender._id)) { error }
SenderAccepted(k) == k.found /\ ExamAdmin(k.exam) = k.user

\* lines 290-306: authorization, in-memory increment, recordWarning, save issued
HandleSendWarningAuth(t) ==
  LET k == tasks[t] IN
  /\ k.kind = "sendWarning" /\ k.io = "found" /\ k.at = "auth"
  /\ IF ~SenderAccepted(k)
     THEN /\ out' = {EmitError(k.sock, k.user, "Not authorized to send warnings")}
          /\ tasks' = [tasks EXCEPT ![t] = IdleTask]
          /\ videoStates' = videoStates
     ELSE IF WarningTargetAccepted(k)
     THEN /\ videoStates[k.target].warningCount < MaxWarn
          /\ k.cand # None => k.cand[1].warnings < MaxWarn
          /\ videoStates' = [videoStates EXCEPT ![k.target].warningCount = @ + 1,
                                                ![k.target].lastWarningTime = now]
          /\ tasks' = [tasks EXCEPT ![t] = [RecordWarning(k) EXCEPT
                                              !.vsLive = TRUE, !.io = "save", !.at = "emit"]]
          /\ out' = {}
     ELSE /\ out' = {}
          /\ tasks' = [tasks EXCEPT ![t] = IdleTask]
          /\ videoStates' = videoStates
  /\ UNCHANGED <<now, connected, examRooms, reconnectionAttempts, timers,
                 warningCooldowns, exams, obsVars>>
  /\ UNCHANGED monVars

\* lines 308-323: warningIssued, then the threshold check on the held monitoring state
HandleSendWarningEmit(t) ==
  LET k == tasks[t]
      vs == HeldVideoState(k)
  IN
  /\ k.kind = "sendWarning" /\ SaveAwaited(k) /\ k.at = "emit"
  /\ out' = {Emit("warningIssued", k.exam, k.target)}
  /\ IF SettingsAutoDisqualify(k.exam) /\ vs.warningCount >= SettingsMaxWarnings(k.exam)
        /\ k.cand # None
     THEN tasks' = [tasks EXCEPT ![t] = [SetStatus(k, "disqualified") EXCEPT
                                           !.io = "save", !.at = "disq"]]
     ELSE tasks' = [tasks EXCEPT ![t] = IdleTask]
  /\ UNCHANGED <<now, connected, memVars, exams, obsVars>>
  /\ UNCHANGED monVars

\* line 324
HandleSendWarningDisq(t) ==
  LET k == tasks[t] IN
  /\ k.kind = "sendWarning" /\ SaveAwaited(k) /\ k.at = "disq"
  /\ out' = {Emit("candidateDisqualified", k.exam, k.target)}
  /\ tasks' = [tasks EXCEPT ![t] = IdleTask]
  /\ UNCHANGED <<now, connected, memVars, exams, obsVars>>
  /\ UNCHANGED monVars

(***************************************************************************)
(* send_warning (legacy)                                                   *)
(***************************************************************************)
\* lines 572-581: the exam is the first session that holds the sender's handle
HandleSendWarningLegacyStart(t, s, to) ==
  /\ s \in connected
  /\ IF FindRoomOf(examRooms, s) = NoExam
     THEN /\ out' = {EmitError(s, SockUser(s), "Not in any exam room")}
          /\ tasks' = tasks
     ELSE /\ FreeTask(t)
          /\ tasks' = [tasks EXCEPT ![t] = [IdleTask EXCEPT !.kind = "sendWarningLegacy",
                         !.io = "find", !.at = "auth", !.sock = s, !.peer = to,
                         !.user = SockUser(s), !.exam = FindRoomOf(examRooms, s),
                         !.target = SockUser(s)]]
          /\ out' = {}
  /\ UNCHANGED <<now, connected, memVars, exams, obsVars>>
  /\ UNCHANGED monVars

\* lines 583-601: the monitoring state and the persisted record that are updated are
\* the sender's (this.videoStates.get(sender._id), exam.recordWarning(sender._id))
HandleSendWarningLegacyAuth(t) ==
  LET k == tasks[t] IN
  /\ k.kind = "sendWarningLegacy" /\ k.io = "found" /\ k.at = "auth"
  /\ IF ~SenderAccepted(k)
     THEN /\ out' = {EmitError(k.sock, k.user, "Not authorized to send warnings")}
          /\ tasks' = [tasks EXCEPT ![t] = IdleTask]
          /\ videoStates' = videoStates
     ELSE IF k.peer \in RoomSockets(examRooms, k.exam) /\ k.user \in DOMAIN videoStates
     THEN /\ videoStates[k.user].warningCount < MaxWarn
          /\ k.cand # None => k.cand[1].warnings < MaxWarn
          /\ videoStates' = [videoStates EXCEPT ![k.user].warningCount = @ + 1,
                                                ![k.user].lastWarningTime = now]
          /\ tasks' = [tasks EXCEPT ![t] = [RecordWarning(k) EXCEPT
                                              !.vsLive = TRUE, !.io = "save", !.at = "emit"]]
          /\ out' = {}
     ELSE /\ out' = {}
          /\ tasks' = [tasks EXCEPT ![t] = IdleTask]
          /\ videoStates' = videoStates
  /\ UNCHANGED <<now, connected, examRooms, reconnectionAttempts, timers,
                 warningCooldowns, exams, obsVars>>
  /\ UNCHANGED monVars

\* lines 603-607
HandleSendWarningLegacyEmit(t) ==
  LET k == tasks[t] IN
  /\ k.kind = "sendWarningLegacy" /\ SaveAwaited(k) /\ k.at = "emit"
  /\ out' = {Emit("warning_received", k.peer, k.user)}
  /\ tasks' = [tasks EXCEPT ![t] = IdleTask]
  /\ UNCHANGED <<now, connected, memVars, exams, obsVars>>
  /\ UNCHANGED monVars

(***************************************************************************)
(* leaveExam                                                               *)
(***************************************************************************)
\* 'leaveExam' has two listeners (lines 90 and 109).  handleLeaveExam suspends in
\* Exam.findById; handleLeaveExamLegacy (616-628) has no await and runs to its end in
\* the same turn.
HandleLeaveExamStart(t, s, e) ==
  /\ FreeTask(t)
  /\ s \in connected
  /\ examRooms' = RoomDelete(examRooms, e, s)
  /\ videoStates' = MapDelete(videoStates, SockUser(s))
  /\ tasks' = [Detach(tasks, SockUser(s)) EXCEPT ![t] = [IdleTask EXCEPT
                 !.kind = "leaveExam", !.io = "find", !.at = "leave", !.sock = s,
                 !.user = SockUser(s), !.exam = e, !.target = SockUser(s)]]
  /\ out' = {Emit("user_left", e, SockUser(s))}
  /\ UNCHANGED <<now, connected, reconnectionAttempts, timers, warningCooldowns,
                 exams, obsVars>>
  /\ UNCHANGED monVars

\* lines 196-206, after Exam.findById
HandleLeaveExam(t) ==
  LET k == tasks[t]
      isAdmin == k.found /\ ExamAdmin(k.exam) = k.user
  IN
  /\ k.kind = "leaveExam" /\ k.io = "found" /\ k.at = "leave"
  /\ examRooms' = RoomDelete(examRooms, k.exam, k.sock)
  /\ videoStates' = MapDelete(videoStates, k.user)
  /\ tasks' = [Detach(tasks, k.user) EXCEPT ![t] = IdleTask]
  /\ out' = {Emit("userLeft", k.exam, k.user)} \cup
            (IF ~isAdmin /\ k.found /\ k.exam \in RoomIds(examRooms)
             THEN {Emit("user_list", ExamAdmin(k.exam), k.user)} ELSE {})
  /\ UNCHANGED <<now, connected, reconnectionAttempts, timers, warningCooldowns,
                 exams, obsVars>>
  /\ UNCHANGED monVars

(***************************************************************************)
(* startStream                                                             *)
(***************************************************************************)
\* the test of line 234 left out
StreamingAllowedAlways(cand) == TRUE

\* line 234: if (!candidate.videoMonitoring.isEnabled)
StreamingAllowed(cand) == cand.vmEnabled

\* lines 213-221: the role test runs before the first await
HandleStartStreamStart(t, s, e) ==
  /\ s \in connected
  /\ IF UserType(SockUser(s)) # "candidate"
     THEN /\ out' = {EmitError(s, SockUser(s), "Only candidates can stream")}
          /\ tasks' = tasks
     ELSE /\ FreeTask(t)
          /\ tasks' = [tasks EXCEPT ![t] = [IdleTask EXCEPT !.kind = "startStream",
                         !.io = "find", !.at = "stream", !.sock = s, !.user = SockUser(s),
                         !.exam = e, !.target = SockUser(s)]]
          /\ out' = {}
  /\ UNCHANGED <<now, connected, memVars, exams, obsVars>>
  /\ UNCHANGED monVars

\* lines 222-251
HandleStartStream(t) ==
  LET k == tasks[t] IN
  /\ k.kind = "startStream" /\ k.io = "found" /\ k.at = "stream"
  /\ tasks' = [tasks EXCEPT ![t] = IdleTask]
  /\ IF ~k.found
     THEN /\ out' = {EmitError(k.sock, k.user, "Exam not found")}
          /\ videoStates' = videoStates
     ELSE IF k.cand = None
     THEN /\ out' = {EmitError(k.sock, k.user, "Candidate not found in exam")}
          /\ videoStates' = videoStates
     ELSE IF ~StreamingAllowed(k.cand[1])
     THEN /\ out' = {EmitError(k.sock, k.user, "Video monitoring is disabled")}
          /\ videoStates' = videoStates
     ELSE /\ videoStates' = MapSet(videoStates, k.user,
                 [(IF k.user \in DOMAIN videoStates THEN videoStates[k.user]
                   ELSE NewVideoState) EXCEPT !.isStreaming = TRUE])
          /\ out' = {Emit("streamStarted", k.exam, k.user)}
  /\ UNCHANGED <<now, connected, examRooms, reconnectionAttempts, timers,
                 warningCooldowns, exams, obsVars>>
  /\ UNCHANGED monVars

(***************************************************************************)
(* POST /:examId/submit                                                    *)
(***************************************************************************)
\* router.param('examId', getExamById) loads the document before the route's middleware
SubmitExamStart(t, e, u) ==
  /\ FreeTask(t)
  /\ UserType(u) = "candidate"
  /\ tasks' = [tasks EXCEPT ![t] = [IdleTask EXCEPT !.kind = "submitExam", !.io = "find",
                 !.at = "submit", !.user = u, !.exam = e, !.target = u]]
  /\ out' = {}
  /\ UNCHANGED <<now, connected, memVars, exams, obsVars>>
  /\ UNCHANGED monVars

SubmitExam(t) ==
  LET k == tasks[t] IN
  /\ k.kind = "submitExam" /\ k.io = "found" /\ k.at = "submit"
  /\ IF ~k.found \/ k.cand = None
     THEN /\ out' = {Emit("http404", k.user, k.user)}
          /\ tasks' = [tasks EXCEPT ![t] = IdleTask]
     ELSE IF k.cand[1].status \in {"completed", "disqualified"}
     THEN /\ out' = {Emit("http400", k.user, k.user)}
          /\ tasks' = [tasks EXCEPT ![t] = IdleTask]
     ELSE /\ out' = {}
          /\ tasks' = [tasks EXCEPT ![t] = [SetStatus(k, "completed") EXCEPT
                                              !.io = "save", !.at = "submitted"]]
  /\ UNCHANGED <<now, connected, memVars, exams, obsVars>>
  /\ UNCHANGED monVars

SubmitExamDone(t) ==
  LET k == tasks[t] IN
  /\ k.kind = "submitExam" /\ k.io = "saved" /\ k.at = "submitted"
  /\ out' = {Emit("http200", k.user, k.user)}
  /\ tasks' = [tasks EXCEPT ![t] = IdleTask]
  /\ UNCHANGED <<now, connected, memVars, exams, obsVars>>
  /\ UNCHANGED monVars

(***************************************************************************)
(* disconnect                                                              *)
(***************************************************************************)
\* lines 376-424: the reconnection bookkeeping at the end of handleDisconnect.
\* `base` is what the handler has emitted before it.
ReconnectionPart(u, reason, e, base) ==
  /\ IF u \in DOMAIN reconnectionAttempts /\ reason = TransportClose
     THEN LET info == reconnectionAttempts[u]
              attempts == IF now - info.lastAttempt > RECONNECTION_TIMEOUT * 2
                          THEN 0 ELSE info.attempts
          IN IF attempts < MAX_RECONNECTION_ATTEMPTS
             THEN /\ reconnectionAttempts' = [reconnectionAttempts EXCEPT ![u] =
                       [attempts |-> attempts + 1, lastAttempt |-> now, examId |-> info.examId]]
                  /\ timers' = timers \cup
                       {[user |-> u, exam |-> e, fireAt |-> now + RECONNECTION_TIMEOUT]}
                  /\ out' = base
                  /\ permanentCount' = permanentCount
             ELSE /\ reconnectionAttempts' = MapDelete(reconnectionAttempts, u)
                  /\ timers' = timers
                  /\ out' = base \cup (IF e # NoExam
                                       THEN {Emit("userDisconnectedPermanent", e, u)} ELSE {})
                  /\ permanentCount' = IF e # NoExam
                                       THEN [permanentCount EXCEPT ![u] = @ + 1]
                                       ELSE permanentCount
     ELSE /\ out' = base
          /\ UNCHANGED <<reconnectionAttempts, timers, permanentCount>>
  /\ transient' = IF reason = TransportClose /\ e # NoExam
                  THEN [transient EXCEPT ![u] =
                          [count |-> IF @.count < MAX_RECONNECTION_ATTEMPTS
                                     THEN @.count + 1 ELSE @.count,
                           exam |-> e]]
                  ELSE transient

\* lines 337-352, the connection was in a session: the exam is looked up
\* clearInterval(id): the timer is no longer live
ClearInterval(ivs, id) == {i \in ivs : i.id # id}

\* lines 340-345 (and 717-724): the identity's interval timer is cancelled and
\* forgotten, its analysis results are dropped
ClearMonitoring(u) ==
  /\ intervals' = IF u \in DOMAIN analysisIntervals
                  THEN ClearInterval(intervals, analysisIntervals[u]) ELSE intervals
  /\ analysisIntervals' = MapDelete(analysisIntervals, u)
  /\ analysisResults' = MapDelete(analysisResults, u)

HandleDisconnectStart(t, s, reason) ==
  /\ FreeTask(t)
  /\ ClearMonitoring(SockUser(s))
  /\ s \in connected
  /\ FindRoomOf(examRooms, s) # NoExam
  /\ connected' = connected \ {s}
  /\ tasks' = [tasks EXCEPT ![t] = [IdleTask EXCEPT !.kind = "disconnect", !.io = "find",
                 !.at = "disc", !.sock = s, !.user = SockUser(s),
                 !.exam = FindRoomOf(examRooms, s), !.target = SockUser(s),
                 !.reason = reason]]
  /\ out' = {}
  /\ UNCHANGED <<now, memVars, exams, obsVars>>

\* lines 337-351 and 376-424, the connection was in no session
HandleDisconnectNoRoom(s, reason) ==
  /\ s \in connected
  /\ ClearMonitoring(SockUser(s))
  /\ FindRoomOf(examRooms, s) = NoExam
  /\ connected' = connected \ {s}
  /\ ReconnectionPart(SockUser(s), reason, NoExam, {})
  /\ UNCHANGED <<now, examRooms, videoStates, warningCooldowns, exams, tasks>>

\* lines 357-366: the handle leaves the session, the monitoring state is dropped
DisconnectCleanup(t) ==
  LET k == tasks[t] IN
  /\ examRooms' = RoomDelete(examRooms, k.exam, k.sock)
  /\ videoStates' = MapDelete(videoStates, k.user)
  /\ tasks' = [Detach(tasks, k.user) EXCEPT ![t] = IdleTask]
  /\ ReconnectionPart(k.user, k.reason, k.exam, {Emit("userDisconnected", k.exam, k.user)})

\* the filter with < in place of <=
RecentDisconnectionsStrict(cand) ==
  {i \in DOMAIN cand.disconnections :
     now - cand.disconnections[i].startTime < VIDEO_RECONNECTION_TIMEOUT}

\* VideoMonitoringService.handleDisconnection, up to its save
RecentDisconnections(cand) ==
  {i \in DOMAIN cand.disconnections :
     now - cand.disconnections[i].startTime <= VIDEO_RECONNECTION_TIMEOUT}

HandleDisconnection(k) ==
  LET k1 == RecordDisconnection(k)
  IN IF Cardinality(RecentDisconnections(k1.cand[1])) >= MAX_DISCONNECTIONS
     THEN SetStatus(k1, "disqualified") ELSE k1

HandleDisconnectFound(t) ==
  LET k == tasks[t] IN
  /\ k.kind = "disconnect" /\ k.io = "found" /\ k.at = "disc"
  /\ IF ~k.found
     THEN /\ tasks' = [tasks EXCEPT ![t] = IdleTask]
          /\ ReconnectionPart(k.user, k.reason, k.exam, {})
          /\ UNCHANGED <<examRooms, videoStates>>
     ELSE IF k.cand = None
     THEN DisconnectCleanup(t)
     ELSE /\ Len(k.cand[1].disconnections) < MaxDisc
          /\ tasks' = [tasks EXCEPT ![t] = [HandleDisconnection(k) EXCEPT
                                              !.io = "save", !.at = "discSaved"]]
          /\ out' = {}
          /\ UNCHANGED <<examRooms, videoStates, reconnectionAttempts, timers, obsVars>>
  /\ UNCHANGED <<now, connected, warningCooldowns, exams>>
  /\ UNCHANGED monVars

HandleDisconnectSaved(t) ==
  LET k == tasks[t] IN
  /\ k.kind = "disconnect" /\ SaveAwaited(k) /\ k.at = "discSaved"
  /\ DisconnectCleanup(t)
  /\ UNCHANGED <<now, connected, warningCooldowns, exams>>
  /\ UNCHANGED monVars

\* the setTimeout callback of lines 392-408
ReconnectTimeout(tm) ==
  /\ tm \in timers
  /\ now >= tm.fireAt
  /\ timers' = timers \ {tm}
  /\ IF tm.user \in DOMAIN reconnectionAttempts
        /\ reconnectionAttempts[tm.user].attempts >= MAX_RECONNECTION_ATTEMPTS
     THEN /\ reconnectionAttempts' = MapDelete(reconnectionAttempts, tm.user)
          /\ out' = IF tm.exam # NoExam
                    THEN {Emit("userDisconnectedPermanent", tm.exam, tm.user)} ELSE {}
          /\ permanentCount' = IF tm.exam # NoExam
                               THEN [permanentCount EXCEPT ![tm.user] = @ + 1]
                               ELSE permanentCount
     ELSE /\ out' = {}
          /\ UNCHANGED <<reconnectionAttempts, permanentCount>>
  /\ UNCHANGED <<now, connected, examRooms, videoStates, warningCooldowns, exams,
                 tasks, transient>>
  /\ UNCHANGED monVars

(***************************************************************************)
(* reconnect                                                               *)
(***************************************************************************)
\* the test without its !reconnectInfo half
ReconnectRejectedMismatchOnly(u, e) ==
  u \in DOMAIN reconnectionAttempts /\ reconnectionAttempts[u].examId # e

\* line 438: if (!reconnectInfo || reconnectInfo.examId !== examId)
ReconnectRejected(u, e) ==
  u \notin DOMAIN reconnectionAttempts \/ reconnectionAttempts[u].examId # e

HandleReconnectStart(t, s, e) ==
  /\ s \in connected
  /\ IF ReconnectRejected(SockUser(s), e)
     THEN /\ out' = {EmitError(s, SockUser(s), "Invalid reconnection attempt")}
          /\ UNCHANGED <<reconnectionAttempts, tasks>>
     ELSE /\ FreeTask(t)
          /\ reconnectionAttempts' = MapDelete(reconnectionAttempts, SockUser(s))
          /\ tasks' = [tasks EXCEPT ![t] = [IdleTask EXCEPT !.kind = "reconnect",
                         !.io = "find", !.at = "reconn", !.sock = s, !.user = SockUser(s),
                         !.exam = e, !.target = SockUser(s)]]
          /\ out' = {}
  /\ UNCHANGED <<now, connected, examRooms, videoStates, timers, warningCooldowns,
                 exams, obsVars>>
  /\ UNCHANGED monVars

HandleReconnectFound(t) ==
  LET k == tasks[t] IN
  /\ k.kind = "reconnect" /\ k.io = "found" /\ k.at = "reconn"
  /\ IF ~k.found
     THEN /\ out' = {EmitError(k.sock, k.user, "Exam not found")}
          /\ tasks' = [tasks EXCEPT ![t] = IdleTask]
     ELSE /\ out' = {}
          /\ tasks' = [tasks EXCEPT ![t] = [RecordReconnection(k) EXCEPT
                                              !.io = "save", !.at = "rejoin"]]
  /\ UNCHANGED <<now, connected, memVars, exams, obsVars>>
  /\ UNCHANGED monVars

HandleReconnectSaved(t) ==
  LET k == tasks[t] IN
  /\ k.kind = "reconnect" /\ k.io = "saved" /\ k.at = "rejoin"
  /\ examRooms' = RoomAdd(examRooms, k.exam, k.sock)
  /\ out' = {Emit("userReconnected", k.exam, k.user)}
  /\ tasks' = [tasks EXCEPT ![t] = IdleTask]
  /\ transient' = [transient EXCEPT ![k.user] = [count |-> 0, exam |-> NoExam]]
  /\ UNCHANGED <<now, connected, videoStates, reconnectionAttempts, timers,
                 warningCooldowns, exams, permanentCount>>
  /\ UNCHANGED monVars

(***************************************************************************)
(* VideoMonitoringService.issueWarning and POST /:examId/anti-cheating     *)
(***************************************************************************)
\* the cooldown compared against the reconnection timeout instead of WARNING_COOLDOWN
CanIssueWarningWrongPeriod(u) ==
  u \notin DOMAIN warningCooldowns
    \/ now - warningCooldowns[u] >= VIDEO_RECONNECTION_TIMEOUT

CanIssueWarning(u) ==
  u \notin DOMAIN warningCooldowns \/ now - warningCooldowns[u] >= WARNING_COOLDOWN

\* the four thresholds of recordAntiCheatingEvent, in the order they are tested
Thresholds ==
  <<[type |-> "tab_switch", min |-> TabSwitchThreshold],
    [type |-> "copy_paste", min |-> CopyPasteThreshold],
    [type |-> "right_click", min |-> RightClickThreshold],
    [type |-> "dev_tools", min |-> DevToolsThreshold]>>

\* recentEvents: the events of the last 5 minutes
RecentEvents(events) == {i \in DOMAIN events : now - events[i].timestamp < AntiCheatWindow}

EventCount(events, type) ==
  Cardinality({i \in RecentEvents(events) : events[i].eventType = type})

\* the thresholds tested with > instead of >=
ThresholdsMetStrict(events) ==
  {j \in DOMAIN Thresholds : EventCount(events, Thresholds[j].type) > Thresholds[j].min}

ThresholdsMet(events) ==
  {j \in DOMAIN Thresholds : EventCount(events, Thresholds[j].type) >= Thresholds[j].min}

RecordAntiCheatingEventStart(t, e, u, type) ==
  /\ FreeTask(t)
  /\ tasks' = [tasks EXCEPT ![t] = [IdleTask EXCEPT !.kind = "antiCheat", !.io = "find",
                 !.at = "record", !.user = u, !.exam = e, !.target = u, !.reason = type]]
  /\ out' = {}
  /\ UNCHANGED <<now, connected, memVars, exams, obsVars>>
  /\ UNCHANGED monVars

\* The threshold tests from number i on.  A call of issueWarning that finds the
\* cooldown active returns without suspending; the first call that does not records
\* the warning, starts the cooldown and suspends in exam.save().  When no call
\* suspends the handler reaches its own exam.save().
IssueFrom(t, k, i) ==
  LET due == {j \in k.met : j >= i}
  IN IF due # {} /\ CanIssueWarning(k.user)
     THEN /\ k.cand[1].warnings < MaxWarn
          /\ warningCooldowns' = MapSet(warningCooldowns, k.user, now)
          /\ tasks' = [tasks EXCEPT ![t] = [RecordWarning(k) EXCEPT
                         !.io = "save", !.at = "issued",
                         !.step = (CHOOSE j \in due : \A j2 \in due : j <= j2) + 1]]
     ELSE /\ warningCooldowns' = warningCooldowns
          /\ tasks' = [tasks EXCEPT ![t] = [k EXCEPT !.io = "save", !.at = "final"]]

RecordAntiCheatingEvent(t) ==
  LET k == tasks[t] IN
  /\ k.kind = "antiCheat" /\ k.io = "found" /\ k.at = "record"
  /\ IF ~k.found
     THEN /\ out' = {Emit("http404", k.user, k.user)}
          /\ tasks' = [tasks EXCEPT ![t] = IdleTask]
          /\ warningCooldowns' = warningCooldowns
     ELSE IF k.cand = None
     THEN /\ out' = {Emit("http403", k.user, k.user)}
          /\ tasks' = [tasks EXCEPT ![t] = IdleTask]
          /\ warningCooldowns' = warningCooldowns
     ELSE LET events == Append(k.cand[1].antiCheatingEvents,
                               [eventType |-> k.reason, timestamp |-> now])
              k1 == [k EXCEPT !.cand = Some([k.cand[1] EXCEPT !.antiCheatingEvents = events]),
                              !.pushedEvents = k.pushedEvents + 1,
                              !.met = ThresholdsMet(events)]
          IN /\ Len(k.cand[1].antiCheatingEvents) < MaxEvents
             /\ out' = {}
             /\ IssueFrom(t, k1, 1)
  /\ UNCHANGED <<now, connected, examRooms, videoStates, reconnectionAttempts, timers,
                 exams, obsVars>>
  /\ UNCHANGED monVars

\* issueWarning resumes after its save and returns; the remaining thresholds are tested
RecordAntiCheatingEventIssued(t) ==
  LET k == tasks[t] IN
  /\ k.kind = "antiCheat" /\ k.io = "saved" /\ k.at = "issued"
  /\ out' = {}
  /\ IssueFrom(t, k, k.step)
  /\ UNCHANGED <<now, connected, examRooms, videoStates, reconnectionAttempts, timers,
                 exams, obsVars>>
  /\ UNCHANGED monVars

RecordAntiCheatingEventDone(t) ==
  LET k == tasks[t] IN
  /\ k.kind = "antiCheat" /\ k.io = "saved" /\ k.at = "final"
  /\ out' = {Emit("http200", k.user, k.user)}
  /\ tasks' = [tasks EXCEPT ![t] = IdleTask]
  /\ UNCHANGED <<now, connected, memVars, exams, obsVars>>
  /\ UNCHANGED monVars

(***************************************************************************)
(* Failure of exam.save()                                                  *)
(***************************************************************************)
\* await exam.save() rejects: nothing is written, the local document keeps its changes
DbSaveFail(t) ==
  /\ tasks[t].io = "save"
  /\ tasks' = [tasks EXCEPT ![t].io = "failed"]
  /\ out' = {}
  /\ UNCHANGED <<now, connected, memVars, exams, obsVars, monVars>>

\* lines 327-329: the rejection of either save is caught and logged
HandleSendWarningFailed(t) ==
  LET k == tasks[t] IN
  /\ k.kind = "sendWarning" /\ k.io = "failed"
  /\ out' = {}
  /\ tasks' = [tasks EXCEPT ![t] = IdleTask]
  /\ UNCHANGED <<now, connected, memVars, exams, obsVars, monVars>>

(***************************************************************************)
(* stopStream                                                              *)
(***************************************************************************)
\* lines 259-263
HandleStopStreamStart(t, s, e) ==
  /\ FreeTask(t)
  /\ s \in connected
  /\ tasks' = [tasks EXCEPT ![t] = [IdleTask EXCEPT !.kind = "stopStream", !.io = "find",
                 !.at = "stop", !.sock = s, !.user = SockUser(s), !.exam = e,
                 !.target = SockUser(s)]]
  /\ out' = {}
  /\ UNCHANGED <<now, connected, memVars, exams, obsVars, monVars>>

\* lines 264-266, and 276-280 when the exam does not exist
HandleStopStream(t) ==
  LET k == tasks[t] IN
  /\ k.kind = "stopStream" /\ k.io = "found" /\ k.at = "stop"
  /\ IF ~k.found
     THEN /\ out' = {Emit("streamStopped", k.exam, k.user)}
          /\ tasks' = [tasks EXCEPT ![t] = IdleTask]
     ELSE /\ k.cand # None => Len(k.cand[1].disconnections) < MaxDisc
          /\ out' = {}
          /\ tasks' = [tasks EXCEPT ![t] = [RecordDisconnection(k) EXCEPT
                                              !.io = "save", !.at = "stopped"]]
  /\ UNCHANGED <<now, connected, memVars, exams, obsVars, monVars>>

\* lines 268-280
HandleStopStreamSaved(t) ==
  LET k == tasks[t] IN
  /\ k.kind = "stopStream" /\ SaveAwaited(k) /\ k.at = "stopped"
  /\ videoStates' = IF k.user \in DOMAIN videoStates
                    THEN [videoStates EXCEPT ![k.user].isStreaming = FALSE]
                    ELSE videoStates
  /\ out' = {Emit("streamStopped", k.exam, k.user)}
  /\ tasks' = [tasks EXCEPT ![t] = IdleTask]
  /\ UNCHANGED <<now, connected, examRooms, reconnectionAttempts, timers,
                 warningCooldowns, exams, obsVars, monVars>>

\* lines 281-283
HandleStopStreamFailed(t) ==
  LET k == tasks[t] IN
  /\ k.kind = "stopStream" /\ k.io = "failed"
  /\ out' = {}
  /\ tasks' = [tasks EXCEPT ![t] = IdleTask]
  /\ UNCHANGED <<now, connected, memVars, exams, obsVars, monVars>>

(***************************************************************************)
(* Signaling relay                                                         *)
(***************************************************************************)
\* socket.to(room): every live connection in the room except the sender.  A
\* connection is in the room named by its own id and in the room of every exam it
\* joined (socket.join(examId), lines 130 and 494).
RoomMembers(room) ==
  {r \in connected : r = room \/ r \in RoomSockets(examRooms, room)}

Recipients(s, to) == RoomMembers(to) \ {s}

\* lines 544-555: socket.to(payload.to).emit('receive_signal', {signal, from: payload.from})
HandleSendingSignal(s, to, from) ==
  /\ s \in connected
  /\ out' = {Emit("receive_signal", r, from) : r \in Recipients(s, to)}
  /\ UNCHANGED <<now, connected, memVars, exams, tasks, obsVars, monVars>>

\* lines 557-568: socket.to(payload.to).emit('receiving_returned_signal', {signal, from: socket.id})
HandleSendSignal(s, to) ==
  /\ s \in connected
  /\ out' = {Emit("receiving_returned_signal", r, s) : r \in Recipients(s, to)}
  /\ UNCHANGED <<now, connected, memVars, exams, tasks, obsVars, monVars>>

(***************************************************************************)
(* Video analysis and automated monitoring                                 *)
(***************************************************************************)
ResultsOf(u) == IF u \in DOMAIN analysisResults THEN analysisResults[u] ELSE << >>

\* lines 41-62: the simulated analysis of a frame of `size` bytes
AnalyzeFrame(size) ==
  [hasMultipleFaces |-> ~(size < SMALL_FRAME) /\ size > LARGE_FRAME,
   hasNoFace |-> size < SMALL_FRAME,
   hasUnusualMovement |-> FALSE,
   timestamp |-> now]

\* lines 70-75: r.timestamp > Date.now() - 10 minutes
KeepRecentResults(rs) == SelectSeq(rs, LAMBDA r : r.timestamp > now - ANALYSIS_WINDOW)

CountOf(rs, flag) == Cardinality({i \in DOMAIN rs : rs[i][flag]})

Min(a, b) == IF a < b THEN a ELSE b

\* lines 97-130, the confidence in tenths
CheckForSuspiciousActivity(rs) ==
  LET n == Len(rs)
      mf == n > 0 /\ CountOf(rs, "hasMultipleFaces") * 10 > n * 3
      nf == n > 0 /\ CountOf(rs, "hasNoFace") * 2 > n
      um == n > 0 /\ CountOf(rs, "hasUnusualMovement") * 10 > n * 4
      reasons == (IF mf THEN {"Multiple faces detected"} ELSE {}) \cup
                 (IF nf THEN {"No face detected for extended period"} ELSE {}) \cup
                 (IF um THEN {"Unusual movement patterns detected"} ELSE {})
      confidence == (IF mf THEN MULTIPLE_FACES_WEIGHT ELSE 0) + (IF nf THEN NO_FACE_WEIGHT ELSE 0)
                    + (IF um THEN UNUSUAL_MOVEMENT_WEIGHT ELSE 0)
  IN [isSuspicious |-> reasons # {}, reasons |-> reasons,
      confidence |-> Min(confidence, 10)]

\* the confidence compared with >= instead of >, against the weight of one condition
AttemptsWarningOnOneCondition(sus) ==
  sus.isSuspicious /\ sus.confidence >= NO_FACE_WEIGHT

\* line 142
AttemptsWarning(sus) == sus.isSuspicious /\ sus.confidence > CONFIDENCE_THRESHOLD

\* lines 631-648: role test, analyzeVideoFrame(data) and checkForSuspiciousActivity run
\* without suspension; the handler suspends in Exam.findById only when the activity
\* is suspicious.  The result is stored under data.userId, the check reads user._id.
HandleAnalyzeFrameStart(t, s, e, uid, size) ==
  LET u == SockUser(s)
      stored == MapSet(analysisResults, uid,
                       KeepRecentResults(Append(ResultsOf(uid), AnalyzeFrame(size))))
      sus == CheckForSuspiciousActivity(IF u \in DOMAIN stored THEN stored[u] ELSE << >>)
  IN
  /\ s \in connected
  /\ IF UserType(u) # "candidate"
     THEN /\ out' = {EmitError(s, u, "Only candidates can send video frames")}
          /\ UNCHANGED <<tasks, analysisResults>>
     ELSE /\ Len(ResultsOf(uid)) < MaxFrames
          /\ analysisResults' = stored
          /\ IF sus.isSuspicious
             THEN /\ FreeTask(t)
                  /\ tasks' = [tasks EXCEPT ![t] = [IdleTask EXCEPT !.kind = "analyzeFrame",
                                 !.io = "find", !.at = "frame", !.sock = s, !.user = u,
                                 !.exam = e, !.target = u, !.met = sus.reasons,
                                 !.step = sus.confidence]]
                  /\ out' = {}
             ELSE /\ tasks' = tasks
                  /\ out' = {Emit("frameAnalysisResult", s, u)}
  /\ UNCHANGED <<now, connected, memVars, exams, obsVars, analysisIntervals, intervals>>

\* lines 649-663
HandleAnalyzeFrame(t) ==
  LET k == tasks[t] IN
  /\ k.kind = "analyzeFrame" /\ k.io = "found" /\ k.at = "frame"
  /\ out' = (IF k.found THEN {Emit("suspiciousActivityDetected", k.exam, k.user)} ELSE {})
            \cup {Emit("frameAnalysisResult", k.sock, k.user)}
  /\ tasks' = [tasks EXCEPT ![t] = IdleTask]
  /\ UNCHANGED <<now, connected, memVars, exams, obsVars, monVars>>

\* setInterval returns a timer object distinct from every other one in use
UsedTimerIds == {i.id : i \in intervals} \cup {analysisIntervals[u] : u \in DOMAIN analysisIntervals}
TimerIds == 1..(MaxIntervals + 1)
NewTimerId == CHOOSE n \in TimerIds : n \notin UsedTimerIds /\
                 \A m \in TimerIds : m \notin UsedTimerIds => n <= m

\* the previous timer of the identity is left running
KeepPreviousInterval(u) == intervals

\* lines 681-683: if (this.analysisIntervals.has(user._id)) clearInterval(...)
ClearPreviousInterval(u) ==
  IF u \in DOMAIN analysisIntervals
  THEN ClearInterval(intervals, analysisIntervals[u]) ELSE intervals

\* lines 671-704
HandleStartAutomatedMonitoring(s, e) ==
  LET u == SockUser(s) IN
  /\ s \in connected
  /\ IF UserType(u) # "candidate"
     THEN /\ out' = {EmitError(s, u, "Only candidates can start automated monitoring")}
          /\ UNCHANGED <<analysisIntervals, intervals>>
     ELSE /\ Cardinality(UsedTimerIds) <= MaxIntervals
          /\ intervals' = ClearPreviousInterval(u) \cup
                            {[id |-> NewTimerId, user |-> u, exam |-> e,
                              next |-> now + POLL_INTERVAL]}
          /\ analysisIntervals' = MapSet(analysisIntervals, u, NewTimerId)
          /\ out' = {Emit("automatedMonitoringStarted", s, u)}
  /\ UNCHANGED <<now, connected, memVars, exams, tasks, obsVars, analysisResults>>

\* lines 712-726
HandleStopAutomatedMonitoring(s) ==
  /\ s \in connected
  /\ ClearMonitoring(SockUser(s))
  /\ out' = {Emit("automatedMonitoringStopped", s, SockUser(s))}
  /\ UNCHANGED <<now, connected, memVars, exams, tasks, obsVars>>

\* lines 686-688: a live timer is due; its callback starts and suspends in
\* Exam.findById(examId)
IntervalFire(t, id) ==
  /\ FreeTask(t)
  /\ \E i \in intervals :
       /\ i.id = id
       /\ now >= i.next
       /\ intervals' = (intervals \ {i}) \cup {[i EXCEPT !.next = now + POLL_INTERVAL]}
       /\ tasks' = [tasks EXCEPT ![t] = [IdleTask EXCEPT !.kind = "poll", !.io = "find",
                      !.at = "poll", !.user = i.user, !.exam = i.exam, !.target = i.user]]
  /\ out' = {}
  /\ UNCHANGED <<now, connected, memVars, exams, obsVars, analysisResults, analysisIntervals>>

\* lines 689-696 with processAutomatedWarning (138-153) and issueWarning (189-195):
\* an attempt that finds the cooldown active returns at once, and
\* processAutomatedWarning returns true all the same
HandlePoll(t) ==
  LET k == tasks[t]
      sus == CheckForSuspiciousActivity(ResultsOf(k.user))
  IN
  /\ k.kind = "poll" /\ k.io = "found" /\ k.at = "poll"
  /\ IF k.found /\ AttemptsWarning(sus)
     THEN IF CanIssueWarning(k.user)
          THEN /\ k.cand # None => k.cand[1].warnings < MaxWarn
               /\ warningCooldowns' = MapSet(warningCooldowns, k.user, now)
               /\ tasks' = [tasks EXCEPT ![t] = [RecordWarning(k) EXCEPT
                                                   !.io = "save", !.at = "pollIssued"]]
               /\ out' = {}
          ELSE /\ warningCooldowns' = warningCooldowns
               /\ tasks' = [tasks EXCEPT ![t] = IdleTask]
               /\ out' = {Emit("automatedWarningIssued", k.exam, k.user)}
     ELSE /\ warningCooldowns' = warningCooldowns
          /\ tasks' = [tasks EXCEPT ![t] = IdleTask]
          /\ out' = {}
  /\ UNCHANGED <<now, connected, examRooms, videoStates, reconnectionAttempts, timers,
                 exams, obsVars, monVars>>

\* lines 195-200 and 145, 691-696: issueWarning resumes after its save, or catches the
\* rejection of the save; either way processAutomatedWarning returns true
HandlePollIssued(t) ==
  LET k == tasks[t] IN
  /\ k.kind = "poll" /\ k.io \in {"saved", "failed"} /\ k.at = "pollIssued"
  /\ out' = {Emit("automatedWarningIssued", k.exam, k.user)}
  /\ tasks' = [tasks EXCEPT ![t] = IdleTask]
  /\ UNCHANGED <<now, connected, memVars, exams, obsVars, monVars>>

(***************************************************************************)
(* The document methods called on a loaded exam                            *)
(***************************************************************************)
\* const exam = await Exam.findById(examId)
LoadExam(t, e, u) ==
  /\ FreeTask(t)
  /\ tasks' = [tasks EXCEPT ![t] = [IdleTask EXCEPT !.kind = "document", !.io = "find",
                 !.at = "loaded", !.user = u, !.exam = e, !.target = u]]
  /\ out' = {}
  /\ UNCHANGED <<now, connected, memVars, exams, obsVars>>
  /\ UNCHANGED monVars

\* exam.recordDisconnection(userId)
CallRecordDisconnection(t) ==
  LET k == tasks[t] IN
  /\ k.kind = "document" /\ k.io = "found" /\ k.found
  /\ k.cand # None => Len(k.cand[1].disconnections) < MaxDisc
  /\ tasks' = [tasks EXCEPT ![t] = [RecordDisconnection(k) EXCEPT !.at = "disc"]]
  /\ out' = {}
  /\ UNCHANGED <<now, connected, memVars, exams, obsVars>>
  /\ UNCHANGED monVars

\* exam.recordReconnection(userId)
CallRecordReconnection(t) ==
  LET k == tasks[t] IN
  /\ k.kind = "document" /\ k.io = "found" /\ k.found
  /\ tasks' = [tasks EXCEPT ![t] = [RecordReconnection(k) EXCEPT !.at = "reconn"]]
  /\ out' = {}
  /\ UNCHANGED <<now, connected, memVars, exams, obsVars>>
  /\ UNCHANGED monVars

\* await exam.save()
SaveExam(t) ==
  LET k == tasks[t] IN
  /\ k.kind = "document" /\ k.io = "found" /\ k.found
  /\ tasks' = [tasks EXCEPT ![t].io = "save"]
  /\ out' = {}
  /\ UNCHANGED <<now, connected, memVars, exams, obsVars>>
  /\ UNCHANGED monVars

ReleaseExam(t) ==
  LET k == tasks[t] IN
  /\ k.kind = "document" /\ (k.io = "saved" \/ (k.io = "found" /\ ~k.found))
  /\ tasks' = [tasks EXCEPT ![t] = IdleTask]
  /\ out' = {}
  /\ UNCHANGED <<now, connected, memVars, exams, obsVars>>
  /\ UNCHANGED monVars

(***************************************************************************)
(* Specifications                                                          *)
(***************************************************************************)
SeqTasks == {1}
\* at most two handlers in flight
PairTasks == {1, 2}

\* every operation of the model
Next ==
  \/ \E s \in Sockets : Connect(s)
  \/ Tick(MaxNowCooldown)
  \/ \E t \in TaskIds : DbFind(t)
  \/ \E t \in TaskIds : DbSave(t)
  \/ \E t \in TaskIds, s \in Sockets, e \in ExamIds : HandleJoinExamStart(t, s, e)
  \/ \E t \in TaskIds, s \in Sockets, e \in ExamIds : HandleJoinRoomStart(t, s, e)
  \/ \E t \in TaskIds : HandleJoinExam(t)
  \/ \E t \in TaskIds : HandleJoinRoom(t)
  \/ \E t \in TaskIds, s \in Sockets, e \in ExamIds, u \in Users :
        HandleSendWarningStart(t, s, e, u)
  \/ \E t \in TaskIds : HandleSendWarningAuth(t)
  \/ \E t \in TaskIds : HandleSendWarningEmit(t)
  \/ \E t \in TaskIds : HandleSendWarningDisq(t)
  \/ \E t \in TaskIds, e \in ExamIds, u \in Users : SubmitExamStart(t, e, u)
  \/ \E t \in TaskIds : SubmitExam(t)
  \/ \E t \in TaskIds : SubmitExamDone(t)
  \/ \E t \in TaskIds, s \in Sockets, r \in Reasons : HandleDisconnectStart(t, s, r)
  \/ \E s \in Sockets, r \in Reasons : HandleDisconnectNoRoom(s, r)
  \/ \E t \in TaskIds : HandleDisconnectFound(t)
  \/ \E t \in TaskIds : HandleDisconnectSaved(t)
  \/ \E tm \in timers : ReconnectTimeout(tm)
  \/ \E t \in TaskIds, s \in Sockets, e \in ExamIds : HandleReconnectStart(t, s, e)
  \/ \E t \in TaskIds : HandleReconnectFound(t)
  \/ \E t \in TaskIds : HandleReconnectSaved(t)
  \/ \E t \in TaskIds, e \in ExamIds, u \in Users, ty \in EventTypes :
        RecordAntiCheatingEventStart(t, e, u, ty)
  \/ \E t \in TaskIds : RecordAntiCheatingEvent(t)
  \/ \E t \in TaskIds : RecordAntiCheatingEventIssued(t)
  \/ \E t \in TaskIds : RecordAntiCheatingEventDone(t)
  \/ \E s \in Sockets, c \in Credentials : Handshake(s, c)
  \/ \E t \in TaskIds, s \in Sockets, e \in ExamIds : HandleStartStreamStart(t, s, e)
  \/ \E t \in TaskIds : HandleStartStream(t)
  \/ \E t \in TaskIds, s \in Sockets, e \in ExamIds : HandleLeaveExamStart(t, s, e)
  \/ \E t \in TaskIds : HandleLeaveExam(t)
  \/ \E t \in TaskIds, s \in Sockets, to \in Sockets : HandleSendWarningLegacyStart(t, s, to)
  \/ \E t \in TaskIds : HandleSendWarningLegacyAuth(t)
  \/ \E t \in TaskIds : HandleSendWarningLegacyEmit(t)
  \/ \E t \in TaskIds : DbSaveFail(t)
  \/ \E t \in TaskIds : HandleSendWarningFailed(t)
  \/ \E t \in TaskIds, s \in Sockets, e \in ExamIds : HandleStopStreamStart(t, s, e)
  \/ \E t \in TaskIds : HandleStopStream(t)
  \/ \E t \in TaskIds : HandleStopStreamSaved(t)
  \/ \E t \in TaskIds : HandleStopStreamFailed(t)
  \/ \E s \in Sockets, to \in Sockets \cup ExamIds, from \in Sockets :
        HandleSendingSignal(s, to, from)
  \/ \E s \in Sockets, to \in Sockets \cup ExamIds : HandleSendSignal(s, to)
  \/ \E t \in TaskIds, s \in Sockets, e \in ExamIds, u \in Users,
        size \in {SMALL_FRAME - 1, SMALL_FRAME, LARGE_FRAME + 1} :
        HandleAnalyzeFrameStart(t, s, e, u, size)
  \/ \E t \in TaskIds : HandleAnalyzeFrame(t)
  \/ \E s \in Sockets, e \in ExamIds : HandleStartAutomatedMonitoring(s, e)
  \/ \E s \in Sockets : HandleStopAutomatedMonitoring(s)
  \/ \E t \in TaskIds, id \in TimerIds : IntervalFire(t, id)
  \/ \E t \in TaskIds : HandlePoll(t)
  \/ \E t \in TaskIds : HandlePollIssued(t)

Spec == Init /\ [][Next]_vars

\* joins of one candidate identity over two connections
NextJoin ==
  \/ \E s \in {"s2", "s3"} : Connect(s)
  \/ \E t \in TaskIds : DbFind(t)
  \/ \E t \in TaskIds, s \in {"s2", "s3"}, e \in {"E1", "EX"} : HandleJoinExamStart(t, s, e)
  \/ \E t \in TaskIds, s \in {"s2", "s3"}, e \in {"E1", "EX"} : HandleJoinRoomStart(t, s, e)
  \/ \E t \in TaskIds : HandleJoinExam(t)
  \/ \E t \in TaskIds : HandleJoinRoom(t)

SpecJoin == Init /\ [][NextJoin]_vars

\* admin warnings, one handler at a time
NextWarning ==
  \/ \E s \in {"s1", "s2", "s4"} : Connect(s)
  \/ \E t \in TaskIds : DbFind(t)
  \/ \E t \in TaskIds : DbSave(t)
  \/ \E t \in SeqTasks : HandleJoinExamStart(t, "s2", "E1") \/ HandleJoinExamStart(t, "s4", "E2")
  \/ \E t \in TaskIds : HandleJoinExam(t)
  \/ \E t \in SeqTasks, u \in {"c1", "c2"} : HandleSendWarningStart(t, "s1", "E1", u)
  \/ \E t \in TaskIds : HandleSendWarningAuth(t)
  \/ \E t \in TaskIds : HandleSendWarningEmit(t)
  \/ \E t \in TaskIds : HandleSendWarningDisq(t)

SpecWarning == Init /\ [][NextWarning]_vars

\* an admin's warnings racing with the candidate's submission
NextTerminal ==
  \/ \E s \in {"s1", "s2"} : Connect(s)
  \/ \E t \in TaskIds : DbFind(t)
  \/ \E t \in TaskIds : DbSave(t)
  \/ \E t \in SeqTasks : HandleJoinExamStart(t, "s2", "E1")
  \/ \E t \in TaskIds : HandleJoinExam(t)
  \/ \E t \in TaskIds : HandleSendWarningStart(t, "s1", "E1", "c1")
  \/ \E t \in TaskIds : HandleSendWarningAuth(t)
  \/ \E t \in TaskIds : HandleSendWarningEmit(t)
  \/ \E t \in TaskIds : HandleSendWarningDisq(t)
  \/ \E t \in TaskIds : SubmitExamStart(t, "E1", "c1")
  \/ \E t \in TaskIds : SubmitExam(t)
  \/ \E t \in TaskIds : SubmitExamDone(t)

SpecTerminal == Init /\ [][NextTerminal]_vars

\* transient disconnects and reconnect attempts of one candidate identity
NextReconnect ==
  \/ \E s \in {"s2", "s3"} : Connect(s)
  \/ Tick(MaxNowReconnect)
  \/ \E t \in TaskIds : DbFind(t)
  \/ \E t \in TaskIds : DbSave(t)
  \/ \E t \in SeqTasks, s \in {"s2", "s3"} : HandleJoinExamStart(t, s, "E1")
  \/ \E t \in TaskIds : HandleJoinExam(t)
  \/ \E t \in SeqTasks, s \in {"s2", "s3"}, r \in Reasons : HandleDisconnectStart(t, s, r)
  \/ \E s \in {"s2", "s3"}, r \in Reasons : HandleDisconnectNoRoom(s, r)
  \/ \E t \in TaskIds : HandleDisconnectFound(t)
  \/ \E t \in TaskIds : HandleDisconnectSaved(t)
  \/ \E t \in SeqTasks, s \in {"s2", "s3"}, e \in {"E1", "E2"} : HandleReconnectStart(t, s, e)

SpecReconnect == Init /\ [][NextReconnect]_vars

\* issueWarning reached from concurrent anti-cheating reports of one identity
ReportsOf(u) ==
  Len(exams["E1"][u].antiCheatingEvents) + Len(exams["E2"][u].antiCheatingEvents)

CooldownCall(t, e) ==
  /\ ReportsOf("c1") + Cardinality({t2 \in TaskIds : tasks[t2].kind # "idle"}) < MaxCooldownCalls
  /\ RecordAntiCheatingEventStart(t, e, "c1", "dev_tools")

NextCooldown ==
  \/ Tick(MaxNowCooldown)
  \/ \E t \in TaskIds : DbFind(t)
  \/ \E t \in TaskIds : DbSave(t)
  \/ \E t \in TaskIds, e \in DbExams : CooldownCall(t, e)
  \/ \E t \in TaskIds : RecordAntiCheatingEvent(t)
  \/ \E t \in TaskIds : RecordAntiCheatingEventIssued(t)
  \/ \E t \in TaskIds : RecordAntiCheatingEventDone(t)

SpecCooldown == Init /\ [][NextCooldown]_vars

\* tab-switch reports of one candidate, one request at a time
NextTabSwitch ==
  \/ Tick(MaxNowTab)
  \/ \E t \in TaskIds : DbFind(t)
  \/ \E t \in TaskIds : DbSave(t)
  \/ \E t \in SeqTasks : RecordAntiCheatingEventStart(t, "E1", "c1", "tab_switch")
  \/ \E t \in TaskIds : RecordAntiCheatingEvent(t)
  \/ \E t \in TaskIds : RecordAntiCheatingEventIssued(t)
  \/ \E t \in TaskIds : RecordAntiCheatingEventDone(t)

SpecTabSwitch == Init /\ [][NextTabSwitch]_vars

\* candidates starting their streams, with and without video monitoring enabled
NextStream ==
  \/ \E s \in {"s1", "s2", "s4"} : Connect(s)
  \/ \E t \in TaskIds : DbFind(t)
  \/ \E t \in SeqTasks : HandleJoinExamStart(t, "s2", "E1") \/ HandleJoinExamStart(t, "s4", "E2")
  \/ \E t \in TaskIds : HandleJoinExam(t)
  \/ \E t \in TaskIds, s \in {"s1", "s2", "s4"}, e \in ExamIds : HandleStartStreamStart(t, s, e)
  \/ \E t \in TaskIds : HandleStartStream(t)

SpecStream == Init /\ [][NextStream]_vars

\* recordDisconnection and recordReconnection applied to loaded exams
NextRoundTrip ==
  \/ Tick(MaxNowReconnect)
  \/ \E t \in TaskIds : DbFind(t)
  \/ \E t \in TaskIds : DbSave(t)
  \/ \E t \in SeqTasks, e \in {"E1", "EX"}, u \in {"c1", "c2"} : LoadExam(t, e, u)
  \/ \E t \in TaskIds : CallRecordDisconnection(t)
  \/ \E t \in TaskIds : CallRecordReconnection(t)
  \/ \E t \in TaskIds : SaveExam(t)
  \/ \E t \in TaskIds : ReleaseExam(t)

SpecRoundTrip == Init /\ [][NextRoundTrip]_vars

\* handshakes with good and bad credentials, joins and disconnects
NextAuth ==
  \/ \E s \in {"s2", "s4"}, c \in Credentials : Handshake(s, c)
  \/ \E t \in TaskIds : DbFind(t)
  \/ \E t \in TaskIds : DbSave(t)
  \/ \E t \in TaskIds, s \in {"s2", "s4"} : HandleJoinExamStart(t, s, "E2")
  \/ \E t \in TaskIds : HandleJoinExam(t)
  \/ \E t \in TaskIds, s \in {"s2", "s4"} : HandleDisconnectStart(t, s, ClientDisconnect)
  \/ \E s \in {"s2", "s4"} : HandleDisconnectNoRoom(s, ClientDisconnect)
  \/ \E t \in TaskIds : HandleDisconnectFound(t)
  \/ \E t \in TaskIds : HandleDisconnectSaved(t)

SpecAuth == Init /\ [][NextAuth]_vars

\* joins of a registered candidate and of an outsider, to a stored and an unknown exam
NextJoinAuth ==
  \/ \E s \in {"s2", "s4"} : Connect(s)
  \/ \E t \in TaskIds : DbFind(t)
  \/ \E t \in TaskIds, s \in {"s2", "s4"}, e \in {"E1", "EX"} : HandleJoinExamStart(t, s, e)
  \/ \E t \in TaskIds : HandleJoinExam(t)
  \/ \E t \in TaskIds, s \in {"s2", "s4"}, e \in DbExams : HandleStartStreamStart(t, s, e)
  \/ \E t \in TaskIds : HandleStartStream(t)

SpecJoinAuth == Init /\ [][NextJoinAuth]_vars

\* a closed connection that no handler is working for
HandleDisconnectIdle(s, reason) == Quiescent /\ HandleDisconnectNoRoom(s, reason)

\* an admin and a candidate joining, leaving and dropping out of two sessions, one
\* event at a time
NextSession ==
  \/ \E s \in {"s1", "s2"} : Connect(s)
  \/ \E t \in TaskIds : DbFind(t)
  \/ \E t \in TaskIds : DbSave(t)
  \/ \E t \in SeqTasks, s \in {"s1", "s2"}, e \in DbExams : HandleJoinExamStart(t, s, e)
  \/ \E t \in TaskIds : HandleJoinExam(t)
  \/ \E t \in SeqTasks, s \in {"s1", "s2"}, e \in DbExams : HandleLeaveExamStart(t, s, e)
  \/ \E t \in TaskIds : HandleLeaveExam(t)
  \/ \E t \in SeqTasks, s \in {"s1", "s2"}, r \in Reasons : HandleDisconnectStart(t, s, r)
  \/ \E s \in {"s1", "s2"}, r \in Reasons : HandleDisconnectIdle(s, r)
  \/ \E t \in TaskIds : HandleDisconnectFound(t)
  \/ \E t \in TaskIds : HandleDisconnectSaved(t)

SpecSession == Init /\ [][NextSession]_vars

\* warnings sent by the admin and by candidates, through both events
NextWarningAuth ==
  \/ \E s \in {"s1", "s2", "s4"} : Connect(s)
  \/ \E t \in TaskIds : DbFind(t)
  \/ \E t \in TaskIds : DbSave(t)
  \/ \E t \in SeqTasks : \/ HandleJoinExamStart(t, "s1", "E1")
                         \/ HandleJoinExamStart(t, "s2", "E1")
                         \/ HandleJoinExamStart(t, "s4", "E2")
  \/ \E t \in TaskIds : HandleJoinExam(t)
  \/ \E t \in SeqTasks, s \in {"s1", "s2", "s4"}, e \in {"E1", "EX"} :
        HandleSendWarningStart(t, s, e, "c1")
  \/ \E t \in TaskIds : HandleSendWarningAuth(t)
  \/ \E t \in TaskIds : HandleSendWarningEmit(t)
  \/ \E t \in TaskIds : HandleSendWarningDisq(t)
  \/ \E t \in SeqTasks, s \in {"s1", "s2", "s4"} : HandleSendWarningLegacyStart(t, s, "s2")
  \/ \E t \in TaskIds : HandleSendWarningLegacyAuth(t)

SpecWarningAuth == Init /\ [][NextWarningAuth]_vars

\* warnings of candidate c1 in exam E1 from both sources, one handler at a time;
\* c1 joins once, before any warning, and stays joined
FirstJoin(t) ==
  /\ "c1" \notin DOMAIN videoStates
  /\ exams["E1"]["c1"].warnings = 0
  /\ HandleJoinExamStart(t, "s2", "E1")

ReportWhileJoined(t) ==
  /\ "c1" \in DOMAIN videoStates
  /\ RecordAntiCheatingEventStart(t, "E1", "c1", "dev_tools")

WarnWhileJoined(t) ==
  /\ "c1" \in DOMAIN videoStates
  /\ HandleSendWarningStart(t, "s1", "E1", "c1")

NextCounts ==
  \/ Tick(MaxNowCooldown)
  \/ \E s \in {"s1", "s2"} : Connect(s)
  \/ \E t \in TaskIds : DbFind(t)
  \/ \E t \in TaskIds : DbSave(t)
  \/ \E t \in SeqTasks : FirstJoin(t)
  \/ \E t \in TaskIds : HandleJoinExam(t)
  \/ \E t \in SeqTasks : WarnWhileJoined(t)
  \/ \E t \in TaskIds : HandleSendWarningAuth(t)
  \/ \E t \in TaskIds : HandleSendWarningEmit(t)
  \/ \E t \in TaskIds : HandleSendWarningDisq(t)
  \/ \E t \in SeqTasks : ReportWhileJoined(t)
  \/ \E t \in TaskIds : RecordAntiCheatingEvent(t)
  \/ \E t \in TaskIds : RecordAntiCheatingEventIssued(t)
  \/ \E t \in TaskIds : RecordAntiCheatingEventDone(t)

SpecCounts == Init /\ [][NextCounts]_vars

\* one connection of candidate c1 whose joinExam handlers overlap its disconnect
NextJoinRace ==
  \/ Connect("s2")
  \/ Tick(MaxNowReconnect)
  \/ \E t \in TaskIds : DbFind(t)
  \/ \E t \in TaskIds : DbSave(t)
  \/ \E t \in TaskIds : HandleJoinExamStart(t, "s2", "E1")
  \/ \E t \in TaskIds : HandleJoinExam(t)
  \/ \E t \in TaskIds, r \in Reasons : HandleDisconnectStart(t, "s2", r)
  \/ \E r \in Reasons : HandleDisconnectNoRoom("s2", r)
  \/ \E t \in TaskIds : HandleDisconnectFound(t)
  \/ \E t \in TaskIds : HandleDisconnectSaved(t)

SpecJoinRace == Init /\ [][NextJoinRace]_vars

\* a candidate in a session who is warned, stops streaming and drops out; a
\* stopStream handler may overlap any other handler
NextNotify ==
  \/ \E s \in {"s1", "s2"} : Connect(s)
  \/ \E t \in TaskIds : DbFind(t)
  \/ \E t \in TaskIds : DbSave(t)
  \/ \E t \in SeqTasks : HandleJoinExamStart(t, "s2", "E1")
  \/ \E t \in TaskIds : HandleJoinExam(t)
  \/ \E t \in SeqTasks : HandleSendWarningStart(t, "s1", "E1", "c1")
  \/ \E t \in TaskIds : HandleSendWarningAuth(t)
  \/ \E t \in TaskIds : HandleSendWarningEmit(t)
  \/ \E t \in TaskIds : HandleSendWarningDisq(t)
  \/ \E t \in PairTasks, e \in {"E1", "EX"} : HandleStopStreamStart(t, "s2", e)
  \/ \E t \in TaskIds : HandleStopStream(t)
  \/ \E t \in TaskIds : HandleStopStreamSaved(t)
  \/ \E t \in SeqTasks, r \in Reasons : HandleDisconnectStart(t, "s2", r)
  \/ \E r \in Reasons : HandleDisconnectNoRoom("s2", r)
  \/ \E t \in TaskIds : HandleDisconnectFound(t)
  \/ \E t \in TaskIds : HandleDisconnectSaved(t)

SpecNotify == Init /\ [][NextNotify]_vars

\* frame sizes on both sides of the two limits of analyzeVideoFrame
FrameSizes == {SMALL_FRAME - 1, SMALL_FRAME, LARGE_FRAME + 1}

\* a candidate who submits frames and runs the automated poll, one socket event at a
\* time; the poll callbacks run on their own
NextMonitor ==
  \/ Connect("s2")
  \/ Tick(MaxNowMonitor)
  \/ \E t \in TaskIds : DbFind(t)
  \/ \E t \in TaskIds : DbSave(t)
  \/ \E t \in SeqTasks, size \in FrameSizes : HandleAnalyzeFrameStart(t, "s2", "E1", "c1", size)
  \/ \E t \in TaskIds : HandleAnalyzeFrame(t)
  \/ HandleStartAutomatedMonitoring("s2", "E1")
  \/ HandleStopAutomatedMonitoring("s2")
  \/ \E t \in SeqTasks, id \in TimerIds : IntervalFire(t, id)
  \/ \E t \in TaskIds : HandlePoll(t)
  \/ \E t \in TaskIds : HandlePollIssued(t)

SpecMonitor == Init /\ [][NextMonitor]_vars

\* a frame submitted at the start of the session
EarlyFrame(t, size) == now = 0 /\ HandleAnalyzeFrameStart(t, "s2", "E1", "c1", size)

\* the automated monitoring is started while no timer is live
StartMonitoringOnce == intervals = {} /\ HandleStartAutomatedMonitoring("s2", "E1")

\* warnings from an admin and from the automated poll, with saves that may be rejected
NextSaveFail ==
  \/ \E s \in {"s1", "s2"} : Connect(s)
  \/ Tick(MaxNowMonitor)
  \/ \E t \in TaskIds : DbFind(t)
  \/ \E t \in TaskIds : DbSave(t)
  \/ \E t \in TaskIds : DbSaveFail(t)
  \/ \E t \in SeqTasks : FirstJoin(t)
  \/ \E t \in TaskIds : HandleJoinExam(t)
  \/ \E t \in SeqTasks : HandleSendWarningStart(t, "s1", "E1", "c1")
  \/ \E t \in TaskIds : HandleSendWarningAuth(t)
  \/ \E t \in TaskIds : HandleSendWarningEmit(t)
  \/ \E t \in TaskIds : HandleSendWarningDisq(t)
  \/ \E t \in TaskIds : HandleSendWarningFailed(t)
  \/ \E t \in SeqTasks, size \in FrameSizes : EarlyFrame(t, size)
  \/ \E t \in TaskIds : HandleAnalyzeFrame(t)
  \/ StartMonitoringOnce
  \/ \E t \in SeqTasks, id \in TimerIds : IntervalFire(t, id)
  \/ \E t \in TaskIds : HandlePoll(t)
  \/ \E t \in TaskIds : HandlePollIssued(t)

SpecSaveFail == Init /\ [][NextSaveFail]_vars

\* a candidate whose frames grow old before the automated poll is started, one
\* handler at a time

LateStart ==
  /\ Quiescent
  /\ now >= ANALYSIS_WINDOW - POLL_INTERVAL
  /\ HandleStartAutomatedMonitoring("s2", "E1")

NextWindow ==
  \/ Connect("s2")
  \/ Tick(MaxNowWindow)
  \/ \E t \in TaskIds : DbFind(t)
  \/ \E t \in TaskIds : DbSave(t)
  \/ \E t \in SeqTasks, size \in FrameSizes : EarlyFrame(t, size)
  \/ \E t \in TaskIds : HandleAnalyzeFrame(t)
  \/ LateStart
  \/ \E t \in SeqTasks, id \in TimerIds : IntervalFire(t, id)
  \/ \E t \in TaskIds : HandlePoll(t)
  \/ \E t \in TaskIds : HandlePollIssued(t)

SpecWindow == Init /\ [][NextWindow]_vars

\* automated monitoring started, restarted and stopped over three connections of two
\* candidates, with disconnects of connections that are in no session
NextTimers ==
  \/ \E s \in {"s2", "s3", "s4"} : Connect(s)
  \/ Tick(MaxNowMonitor)
  \/ \E t \in TaskIds : DbFind(t)
  \/ \E s \in {"s2", "s3", "s4"} : HandleStartAutomatedMonitoring(s, "E1")
  \/ \E s \in {"s2", "s3", "s4"} : HandleStopAutomatedMonitoring(s)
  \/ \E s \in {"s2", "s3", "s4"}, reason \in Reasons : HandleDisconnectNoRoom(s, reason)
  \/ \E t \in SeqTasks, id \in TimerIds : IntervalFire(t, id)
  \/ \E t \in TaskIds : HandlePoll(t)

SpecTimers == Init /\ [][NextTimers]_vars

\* the `to` of a relayed signal: a connection handle, or the name of a session room
RelayTargets == {"s1", "s2", "s3", "s4", "E2"}

\* the admin and two candidates join E2 and relay signals
NextRelay ==
  \/ \E s \in {"s1", "s2", "s4"} : Connect(s)
  \/ \E t \in TaskIds : DbFind(t)
  \/ \E t \in SeqTasks, s \in {"s1", "s2", "s4"} : HandleJoinExamStart(t, s, "E2")
  \/ \E t \in TaskIds : HandleJoinExam(t)
  \/ \E s \in {"s1", "s2", "s4"}, to \in RelayTargets, from \in {"s1", "s2"} :
       HandleSendingSignal(s, to, from)
  \/ \E s \in {"s1", "s2", "s4"}, to \in RelayTargets : HandleSendSignal(s, to)

SpecRelay == Init /\ [][NextRelay]_vars

\* copy-paste and dev-tools reports of one candidate, one request at a time; the
\* clock may advance while a request waits for the store
NextThresholds ==
  \/ Tick(MaxNowThresholds)
  \/ \E t \in TaskIds : DbFind(t)
  \/ \E t \in TaskIds : DbSave(t)
  \/ \E t \in SeqTasks, type \in {"copy_paste", "dev_tools"} :
       RecordAntiCheatingEventStart(t, "E1", "c1", type)
  \/ \E t \in TaskIds : RecordAntiCheatingEvent(t)
  \/ \E t \in TaskIds : RecordAntiCheatingEventIssued(t)
  \/ \E t \in TaskIds : RecordAntiCheatingEventDone(t)

SpecThresholds == Init /\ [][NextThresholds]_vars

\* candidate c1 on two connections: s2 joins E1 first, s3 joins E1 afterwards
JoinOlder(t) ==
  /\ "s3" \notin RoomSockets(examRooms, "E1")
  /\ HandleJoinExamStart(t, "s2", "E1")

JoinNewer(t) ==
  /\ "s2" \in RoomSockets(examRooms, "E1")
  /\ HandleJoinExamStart(t, "s3", "E1")

\* the newer connection submits frames and runs the automated monitoring; the older
\* one leaves or disconnects; one handler at a time
NextSupersede ==
  \/ \E s \in {"s2", "s3"} : Connect(s)
  \/ \E t \in TaskIds : DbFind(t)
  \/ \E t \in TaskIds : DbSave(t)
  \/ \E t \in SeqTasks : JoinOlder(t)
  \/ \E t \in SeqTasks : JoinNewer(t)
  \/ \E t \in TaskIds : HandleJoinExam(t)
  \/ \E t \in SeqTasks, size \in FrameSizes : HandleAnalyzeFrameStart(t, "s3", "E1", "c1", size)
  \/ \E t \in TaskIds : HandleAnalyzeFrame(t)
  \/ HandleStartAutomatedMonitoring("s3", "E1")
  \/ \E t \in SeqTasks : HandleLeaveExamStart(t, "s2", "E1")
  \/ \E t \in TaskIds : HandleLeaveExam(t)
  \/ \E t \in SeqTasks, r \in Reasons : HandleDisconnectStart(t, "s2", r)
  \/ \E r \in Reasons : HandleDisconnectNoRoom("s2", r)
  \/ \E t \in TaskIds : HandleDisconnectFound(t)
  \/ \E t \in TaskIds : HandleDisconnectSaved(t)

SpecSupersede == Init /\ [][NextSupersede]_vars

(***************************************************************************)
(* Properties                                                              *)
(***************************************************************************)
HandlesOf(u, e) == {s \in RoomSockets(examRooms, e) \cap connected : SockUser(s) = u}

\* C1: a session's participant set holds at most one live handle of a candidate
\* identity: a later join replaces the identity's earlier handle.
C1_OneHandlePerIdentity ==
  \A e \in DbExams, u \in Users : Cardinality(HandlesOf(u, e)) <= 1

\* C2: once every handler has completed, a candidate whose persisted warning count
\* was brought to maxWarnings (3) or more is persisted as disqualified.
C2_DisqualifiedAtMaxWarnings ==
  \A e \in DbExams : \A u \in ExamCandidates(e) :
    (Quiescent /\ SettingsAutoDisqualify(e)
       /\ exams[e][u].warnings >= SettingsMaxWarnings(e))
      => exams[e][u].status = "disqualified"

TotalWarnings(u) ==
  (IF u \in ExamCandidates("E1") THEN exams["E1"][u].warnings ELSE 0)
  + (IF u \in ExamCandidates("E2") THEN exams["E2"][u].warnings ELSE 0)

\* C3: calls of issueWarning for one identity that are less than warningCooldown apart
\* persist exactly one increment: the persisted count never exceeds one increment per
\* elapsed cooldown, and when two or more calls have completed within the first
\* cooldown period exactly one increment is persisted.
C3_OneIncrementPerCooldown ==
  /\ TotalWarnings("c1") <= 1 + (now \div WARNING_COOLDOWN)
  /\ (Quiescent /\ ReportsOf("c1") >= 2 /\ now < WARNING_COOLDOWN)
       => TotalWarnings("c1") = 1

C3_Witness ==
  Quiescent /\ ReportsOf("c1") >= 2 /\ now < WARNING_COOLDOWN /\ TotalWarnings("c1") = 1

\* C4: a warning aimed at a candidate whose persisted status is disqualified changes
\* neither the persisted warning count nor the in-memory warning count and broadcasts
\* no warningIssued.
C4_NoWarningAfterDisqualified ==
  [][\A e \in DbExams : \A u \in ExamCandidates(e) :
       exams[e][u].status = "disqualified"
         => /\ exams'[e][u].warnings = exams[e][u].warnings
            /\ (u \in DOMAIN videoStates /\ u \in DOMAIN videoStates')
                 => videoStates'[u].warningCount <= videoStates[u].warningCount
            /\ Emit("warningIssued", e, u) \notin out']_vars

\* C5: a persisted status of disqualified is never changed to another value.
C5_DisqualifiedIsTerminal ==
  [][\A e \in DbExams : \A u \in ExamCandidates(e) :
       exams[e][u].status = "disqualified" => exams'[e][u].status = "disqualified"]_vars

\* a reconnect{e} event of connection s is handled in this step
ReconnectStep(s, e) == \E t \in TaskIds : HandleReconnectStart(t, s, e)

\* the identity dropped out of session e by a transient disconnect and has not
\* exhausted its attempts
PendingReconnect(u, e) ==
  /\ transient[u].exam = e
  /\ transient[u].count >= 1
  /\ transient[u].count < MAX_RECONNECTION_ATTEMPTS

\* C6: reconnect{E} by a candidate who left E by a transient disconnect, before the
\* attempts are exhausted, is accepted.
C6_ReconnectAccepted ==
  [][\A s \in Sockets, e \in DbExams :
       (ReconnectStep(s, e) /\ PendingReconnect(SockUser(s), e))
         => EmitError(s, SockUser(s), "Invalid reconnection attempt") \notin out']_vars

\* C7: after maxAttempts transient disconnects of an identity without a successful
\* reconnect, once the handlers and timers have run, exactly one permanent
\* disconnection notification has been broadcast and the tracker entry is gone.
C7_OnePermanentNotification ==
  \A u \in Users :
    (transient[u].count >= MAX_RECONNECTION_ATTEMPTS /\ Quiescent /\ timers = {})
      => (permanentCount[u] = 1 /\ u \notin DOMAIN reconnectionAttempts)

\* C8: reconnect{examId} of an identity whose tracker entry is absent or bound to
\* another exam is answered with an error and changes neither the persisted exams,
\* nor the tracker, nor the participant sets, and starts no further work.
C8_RejectedReconnectMutatesNothing ==
  [][\A s \in Sockets, e \in ExamIds :
       (ReconnectStep(s, e)
          /\ (SockUser(s) \notin DOMAIN reconnectionAttempts
                \/ reconnectionAttempts[SockUser(s)].examId # e))
         => /\ EmitError(s, SockUser(s), "Invalid reconnection attempt") \in out'
            /\ exams' = exams
            /\ reconnectionAttempts' = reconnectionAttempts
            /\ examRooms' = examRooms
            /\ videoStates' = videoStates
            /\ tasks' = tasks]_vars

C8_Witness ==
  \E s \in Sockets :
    /\ EmitError(s, SockUser(s), "Invalid reconnection attempt") \in out
    /\ transient[SockUser(s)].count >= 1
    /\ SockUser(s) \notin DOMAIN reconnectionAttempts

TabEvents == exams["E1"]["c1"].antiCheatingEvents

C10_WarningOnlyForCandidates ==
  \A r \in out : r.ev = "warningIssued" => r.user \in ExamCandidates(r.to)

\* C11: startStream by a candidate whose persisted record in the exam has video
\* monitoring disabled is answered with an error to that connection; no in-memory
\* monitoring state changes and no streamStarted is broadcast.
C11_StartStreamRejectedWhenDisabled ==
  [][\A t \in TaskIds :
       (/\ HandleStartStream(t)
        /\ tasks[t].exam \in DbExams
        /\ tasks[t].user \in ExamCandidates(tasks[t].exam)
        /\ ~exams[tasks[t].exam][tasks[t].user].vmEnabled)
         => /\ EmitError(tasks[t].sock, tasks[t].user, "Video monitoring is disabled") \in out'
            /\ videoStates' = videoStates
            /\ \A r \in out' : r.ev # "streamStarted"]_vars

C11_Witness ==
  /\ EmitError("s4", "c2", "Video monitoring is disabled") \in out
  /\ "c2" \in DOMAIN videoStates
  /\ ~videoStates["c2"].isStreaming
  /\ \E u \in DOMAIN videoStates : videoStates[u].isStreaming

\* C12: recordReconnection called right after recordDisconnection for the same
\* candidate sets the end time of the entry appended last, appends no entry and
\* leaves every other entry as it was.
C12_ReconnectionClosesLastEntry ==
  [][\A t \in TaskIds :
       (CallRecordReconnection(t) /\ tasks[t].at = "disc" /\ tasks[t].cand # None)
         => LET before == tasks[t].cand[1].disconnections
                after == tasks'[t].cand[1].disconnections
                n == Len(before)
            IN /\ Len(after) = n
               /\ after[n].endTime = now
               /\ after[n].startTime = before[n].startTime
               /\ \A i \in 1..(n - 1) : after[i] = before[i]]_vars

C12_Witness ==
  \E t \in TaskIds :
    /\ tasks[t].kind = "document" /\ tasks[t].at = "reconn" /\ tasks[t].cand # None
    /\ LET d == tasks[t].cand[1].disconnections
       IN /\ Len(d) >= 2
          /\ d[Len(d)].endTime = now
          /\ d[1].endTime = NoTime

\* C13: a handshake whose credential is missing, invalid or names an unknown user
\* leaves the connection unconnected and changes nothing; a handler starts only for a
\* connected connection and carries the identity bound to it; an event is sent only
\* to a connection that was connected.
C13_OnlyAuthenticatedConnections ==
  [][/\ \A s \in Sockets, c \in Credentials \ {"valid"} :
          Handshake(s, c) => /\ s \notin connected'
                             /\ connected' = connected
                             /\ tasks' = tasks
                             /\ examRooms' = examRooms
                             /\ videoStates' = videoStates
                             /\ exams' = exams
                             /\ \A r \in out' : r.ev = "connect_error"
     /\ \A t \in TaskIds :
          (tasks[t].kind = "idle" /\ tasks'[t].kind # "idle" /\ tasks'[t].sock # NoSock)
            => /\ tasks'[t].sock \in connected
               /\ tasks'[t].user = SockUser(tasks'[t].sock)
               /\ tasks'[t].user \in Users
     /\ \A r \in out' :
          (r.to \in Sockets /\ r.ev # "connect_error")
            => (r.to \in connected \/ \E t \in TaskIds : tasks[t].sock = r.to)]_vars

C13_Witness ==
  \E s \in Sockets :
    /\ \E r \in out : r.ev = "connect_error" /\ r.to = s /\ r.msg = "User not found"
    /\ s \notin connected
    /\ \E i \in DOMAIN examRooms : examRooms[i].socks # {}

\* C14: joinExam for an unknown exam, or by an identity that is neither the admin nor
\* a registered candidate of the exam, emits one error, to that connection, and
\* changes neither the participant sets nor the monitoring states.
C14_RejectedJoinMutatesNothing ==
  [][\A t \in TaskIds :
       (/\ HandleJoinExam(t)
        /\ \/ tasks[t].exam \notin DbExams
           \/ tasks[t].user \notin ({ExamAdmin(tasks[t].exam)} \cup ExamCandidates(tasks[t].exam)))
         => /\ \A r \in out' : r.ev = "error" /\ r.to = tasks[t].sock
            /\ out' # {}
            /\ examRooms' = examRooms
            /\ videoStates' = videoStates
            /\ reconnectionAttempts' = reconnectionAttempts
            /\ exams' = exams]_vars

C14_Witness ==
  /\ EmitError("s4", "c2", "You are not authorized for this action") \in out
  /\ \E i \in DOMAIN examRooms : examRooms[i].socks # {}
  /\ \E u \in DOMAIN videoStates : videoStates[u].isStreaming

\* C15: once the disconnect handler of a connection has completed, the connection's
\* handle is in no session's participant set, and an identity without a live
\* connection has no in-memory monitoring state.
C15_DisconnectRemovesHandle ==
  \A s \in Sockets :
    (s \notin connected /\ ~\E t \in TaskIds : tasks[t].sock = s)
      => /\ \A i \in DOMAIN examRooms : s \notin examRooms[i].socks
         /\ (\A s2 \in Sockets : SockUser(s2) = SockUser(s) =>
                 (s2 \notin connected /\ ~\E t \in TaskIds : tasks[t].sock = s2))
              => SockUser(s) \notin DOMAIN videoStates

\* C19: the registry holds no entry for an exam whose participant set is empty: a
\* session is destroyed when its last participant has left or disconnected.
C19_NoEmptySession ==
  \A i \in DOMAIN examRooms : examRooms[i].socks # {}

C17_NoLostWarning ==
  \A u \in ExamCandidates("E1") :
    (Quiescent /\ u \in DOMAIN videoStates)
      => exams["E1"][u].warnings >= videoStates[u].warningCount

\* C18: sendWarning is gated by the cooldown: warnings of one candidate that are less
\* than warningCooldown (60 s) apart increment its count once, in memory and persisted.
C18_SendWarningCooldownGated ==
  \A u \in ExamCandidates("E1") :
    /\ exams["E1"][u].warnings <= 1 + (now \div WARNING_COOLDOWN)
    /\ u \in DOMAIN videoStates
         => videoStates[u].warningCount <= 1 + (now \div WARNING_COOLDOWN)

\* C20: a sendWarning or send_warning whose sender is not the admin of the exam is
\* answered with an error to the sender, changes neither the monitoring states nor
\* the persisted exams, and ends the handler.
C20_NonAdminWarningRejected ==
  [][/\ \A t \in TaskIds :
          (/\ HandleSendWarningAuth(t) \/ HandleSendWarningLegacyAuth(t)
           /\ tasks[t].user # ExamAdmin(tasks[t].exam) \/ tasks[t].exam \notin DbExams)
            => /\ EmitError(tasks[t].sock, tasks[t].user,
                            "Not authorized to send warnings") \in out'
               /\ \A r \in out' : r.ev = "error" /\ r.to = tasks[t].sock
               /\ videoStates' = videoStates
               /\ exams' = exams
               /\ tasks'[t] = IdleTask
     /\ \A t \in TaskIds, s \in Sockets, to \in Sockets :
          (HandleSendWarningLegacyStart(t, s, to) /\ FindRoomOf(examRooms, s) = NoExam)
            => /\ EmitError(s, SockUser(s), "Not in any exam room") \in out'
               /\ videoStates' = videoStates
               /\ exams' = exams
               /\ tasks' = tasks]_vars

C20_Witness ==
  /\ \E r \in out : /\ r.ev = "error" /\ r.to = "s2"
                    /\ r.msg = "Not authorized to send warnings"
  /\ "c1" \in DOMAIN videoStates
  /\ videoStates["c1"].warningCount >= 1
  /\ exams["E1"]["c1"].warnings >= 1

\* C21: the handling of a transient disconnect of an identity that was in a session
\* and has no tracker entry leaves a tracker entry with attempts = 1 bound to that
\* session's exam; attempts never exceed maxAttempts.
C21_FirstTransientDisconnectTracked ==
  [][/\ \A t \in TaskIds :
          (/\ HandleDisconnectSaved(t)
           /\ tasks[t].reason = TransportClose
           /\ tasks[t].user \notin DOMAIN reconnectionAttempts)
            => /\ tasks[t].user \in DOMAIN reconnectionAttempts'
               /\ reconnectionAttempts'[tasks[t].user].attempts = 1
               /\ reconnectionAttempts'[tasks[t].user].examId = tasks[t].exam
     /\ \A u \in DOMAIN reconnectionAttempts' :
          reconnectionAttempts'[u].attempts <= MAX_RECONNECTION_ATTEMPTS]_vars

\* C22: a join by a candidate that already has a monitoring state leaves that state
\* (warning count, last-warning time, streaming flag) as it was.
C22_JoinKeepsMonitoringState ==
  [][\A t \in TaskIds :
       ((HandleJoinExam(t) \/ HandleJoinRoom(t)) /\ tasks[t].user \in DOMAIN videoStates)
         => /\ tasks[t].user \in DOMAIN videoStates'
            /\ videoStates'[tasks[t].user] = videoStates[tasks[t].user]]_vars

\* C23: for a candidate joined since before the first warning, the in-memory warning
\* count and the persisted warning count are equal whenever no handler is in progress.
C23_CountsAgree ==
  (Quiescent /\ "c1" \in DOMAIN videoStates)
    => videoStates["c1"].warningCount = exams["E1"]["c1"].warnings

\* C24: each connection handle is a member of at most one exam's participant set.
C24_HandleInOneSession ==
  \A s \in Sockets :
    Cardinality({e \in ExamIds : s \in RoomSockets(examRooms, e)}) <= 1

\* C29: a leaveExam concerning one exam leaves the monitoring state of the identity
\* unchanged while its connection is still in another exam's participant set.
C29_OtherSessionStateKept ==
  [][\A t \in TaskIds, s \in Sockets, e \in ExamIds, e2 \in ExamIds :
       (/\ e # e2
        /\ HandleLeaveExamStart(t, s, e)
        /\ s \in RoomSockets(examRooms, e2)
        /\ SockUser(s) \in DOMAIN videoStates)
         => /\ SockUser(s) \in DOMAIN videoStates'
            /\ videoStates'[SockUser(s)] = videoStates[SockUser(s)]]_vars

\* C30: the streaming flag of a candidate is true only while some connection of the
\* candidate is a member of an exam's participant set.
C30_StreamingOnlyWhileJoined ==
  \A u \in DOMAIN videoStates :
    videoStates[u].isStreaming
      => \E s \in Sockets, e \in ExamIds :
           SockUser(s) = u /\ s \in RoomSockets(examRooms, e)

\* C26: while a sendWarning handler is between its increment of the in-memory warning
\* count and its threshold check, no other sendWarning handler changes that count, so
\* the check sees the count as left by the handler's own increment.
C26_CheckSeesOwnIncrement ==
  [][\A t \in TaskIds, t2 \in TaskIds :
       (/\ t # t2
        /\ HandleSendWarningAuth(t)
        /\ tasks[t2].kind = "sendWarning" /\ tasks[t2].at = "emit" /\ tasks[t2].vsLive
        /\ tasks[t2].target = tasks[t].target
        /\ tasks[t].target \in DOMAIN videoStates)
         => videoStates'[tasks[t].target].warningCount
              = videoStates[tasks[t].target].warningCount]_vars

\* C27: the save issued by the handler of a disconnect whose reason is not a transport
\* failure changes nothing in the persisted exam: no disconnection entry is appended
\* and no status becomes disqualified.
C27_ExplicitDisconnectNotRecorded ==
  [][\A t \in TaskIds :
       (DbSave(t) /\ tasks[t].kind = "disconnect" /\ tasks[t].reason # TransportClose)
         => exams' = exams]_vars

\* C28: a candidate whose persisted status is completed is never changed to
\* disqualified.
C28_CompletedNeverDisqualified ==
  [][\A e \in DOMAIN exams : \A u \in DOMAIN exams[e] :
       exams[e][u].status = "completed" => exams'[e][u].status # "disqualified"]_vars

\* C25: once the joinExam handlers and the disconnect handler of a connection have
\* all completed, the disconnected handle is in no participant set and its identity
\* has no monitoring state.
C25_DisconnectedHandleStaysOut ==
  (Quiescent /\ "s2" \notin connected)
    => /\ \A e \in ExamIds : "s2" \notin RoomSockets(examRooms, e)
       /\ "c1" \notin DOMAIN videoStates

PersistNotifications ==
  {"warningIssued", "candidateDisqualified", "streamStopped", "userReconnected",
   "userDisconnected"}

\* C31: a handler whose save is pending does not resume in a step that emits a
\* notification of a persisted mutation; such a notification is emitted only by a
\* handler that has resumed from its completed save.
C31_NotifyAfterSave ==
  [][\A t \in TaskIds :
       (tasks[t].io = "save" /\ tasks'[t].io # "save")
         => \A n \in out' : n.ev \notin PersistNotifications]_vars

C31_Witness ==
  /\ \E n \in out : n.ev = "streamStopped" /\ n.to = "E1"
  /\ Len(exams["E1"]["c1"].disconnections) > 0
  /\ \E t \in TaskIds : tasks[t].kind = "sendWarning" /\ tasks[t].io = "save"

\* the poll of task t called issueWarning in this step
PollAttempted(t) ==
  tasks'[t].at = "pollIssued" \/ \E n \in out' : n.ev = "automatedWarningIssued"

\* C33: the automated poll attempts a warning exactly when the clamped sum of the
\* weights of the conditions that hold is greater than 0.6, and never when only one
\* condition holds.
C33_AttemptIffConfident ==
  [][\A t \in TaskIds :
       (HandlePoll(t) /\ tasks[t].found)
         => LET sus == CheckForSuspiciousActivity(ResultsOf(tasks[t].user))
            IN /\ PollAttempted(t) <=> sus.confidence > CONFIDENCE_THRESHOLD
               /\ Cardinality(sus.reasons) = 1 => ~PollAttempted(t)]_vars

C33_Witness ==
  \E t \in TaskIds :
    /\ tasks[t].kind = "poll" /\ tasks[t].at = "pollIssued"
    /\ CheckForSuspiciousActivity(ResultsOf("c1")).confidence
         = MULTIPLE_FACES_WEIGHT + NO_FACE_WEIGHT

\* C39: automatedWarningIssued is emitted only by a poll whose save of the warning
\* increment has completed.
C39_BroadcastOnlyWhenPersisted ==
  [][\A n \in out' :
       n.ev = "automatedWarningIssued"
         => \E t \in TaskIds :
              /\ tasks[t].kind = "poll" /\ tasks[t].io = "saved" /\ tasks[t].cand # None
              /\ tasks'[t].kind = "idle"]_vars

WarningNotifications == {"warningIssued", "automatedWarningIssued", "candidateDisqualified"}

\* C32: a handler that resumes from a rejected save of a warning emits no warning
\* notification and leaves the persisted exam and the in-memory monitoring state and
\* cooldown as they are.
C32_FailedSaveEmitsNothing ==
  [][\A t \in TaskIds :
       (tasks[t].io = "failed" /\ tasks'[t].io # "failed")
         => /\ \A n \in out' : n.ev \notin WarningNotifications
            /\ exams' = exams
            /\ videoStates' = videoStates
            /\ warningCooldowns' = warningCooldowns]_vars

\* C34: a poll attempts a warning only if the results of the last 10 minutes alone
\* are classified as warranting one.
C34_OnlyRecentResultsCount ==
  [][\A t \in TaskIds :
       (HandlePoll(t) /\ PollAttempted(t))
         => AttemptsWarning(CheckForSuspiciousActivity(
                              KeepRecentResults(ResultsOf(tasks[t].user))))]_vars

LiveTimersOf(u) == {i \in intervals : i.user = u}

RelayStep(s, to) ==
  \/ HandleSendSignal(s, to)
  \/ \E from \in Sockets : HandleSendingSignal(s, to, from)

\* C37: handling sending_signal or send_signal emits at most one message, to the
\* addressed handle only, leaves the participant sets, the monitoring states, the
\* reconnection tracker and the exam records unchanged, and drops a message
\* addressed to a handle that is not connected
C37_PureForwarding ==
  [][\A s \in Sockets, to \in RelayTargets :
       RelayStep(s, to)
       => /\ Cardinality(out') <= 1
          /\ to \in Sockets => \A n \in out' : n.to = to
          /\ to \in Sockets \ connected => out' = {}
          /\ \A n \in out' : n.ev # "error"
          /\ UNCHANGED <<memVars, exams, monVars>>]_vars

\* the first of the met thresholds, in the order of the tests at lines 755-769
FirstMet(met) == CHOOSE j \in met : \A j2 \in met : j <= j2

NewerActive == "s3" \in connected /\ "s3" \in RoomSockets(examRooms, "E1")

\* a step of the disconnect handler or of the leave handler of the older connection s2
OlderGoes ==
  \/ \E t \in TaskIds, r \in Reasons : HandleDisconnectStart(t, "s2", r)
  \/ \E r \in Reasons : HandleDisconnectNoRoom("s2", r)
  \/ \E t \in TaskIds : tasks[t].sock = "s2" /\ HandleDisconnectFound(t)
  \/ \E t \in TaskIds : tasks[t].sock = "s2" /\ HandleDisconnectSaved(t)
  \/ \E t \in TaskIds : HandleLeaveExamStart(t, "s2", "E1")
  \/ \E t \in TaskIds : tasks[t].sock = "s2" /\ HandleLeaveExam(t)

=============================================================================
